---- MODULE Spec2Model ----
(***************************************************************************)
(* Document checklist extension (DocumentList.tsx) and the record store    *)
(* it synchronises with.                                                   *)
(*                                                                         *)
(* Text values are sequences of one-character strings, so that trimming,   *)
(* whitespace collapsing, splitting and case folding are computed the way  *)
(* the JavaScript string methods compute them.                             *)
(***************************************************************************)
EXTENDS Integers, Sequences, FiniteSets, TLC

VARIABLES
    \* ---- component state of Extension (DocumentList.tsx 198-217, 481) ----
    documents,                \* Document[]: <<[id, required, provided]>>
    initialDocuments,         \* baseline recorded by the last fetch / save
    recordProperties,         \* property bag of the last successful fetch
    loading,
    saving,
    error,                    \* "" or the class of the message shown
    isChanged,
    isCompleted,
    dossierState,
    initialCompletionStatus,
    initialDossierState,
    selectedTab,
    natureDemande,
    hasConfigError,
    \* ---- environment ----
    catalog,                  \* DOCUMENTS_CONFIG (documents.json), fixed per run
    store,                    \* the external record: field name -> raw value
    fetches,                  \* getDocumentValues calls in flight
    syncs,                    \* updateCompletionStatus(missingDoc) calls in flight
    save,                     \* the full save in flight, or NoSave
    timer,                    \* the pending 200 ms debounce timeout, or NoTimer
    switchTimers,             \* tabs of the pending 100 ms tab-switch timeouts
    clicks,                   \* user gestures and refocuses so far
    events,                   \* environment events so far: edits, failed calls
    lastOp,                   \* the last gesture, fetch answer, save answer or edit
    \* ---- inputs and outputs of the pure functions ----
    evalCond,                 \* a DocumentCondition
    evalItems,                \* the items of a multi-value field
    evalOut,                  \* representation -> result of evaluateCondition
    condDoc,                  \* a document (tabConfig) given to checkDocumentConditions
    condBag,                  \* the property bag given to it
    condOut,                  \* tabId or NoTab (global) -> result
    calcDocs,                 \* a document set given to calculateDossierState
    calcOut,                  \* its result
    \* ---- one invocation of a serverless write function ----
    call,                     \* the invocation: function, position, batch, result
    crm,                      \* the record as the CRM API holds it, and its schema
    \* ---- the earlier variant of the component ----
    autoSaves,                \* the automatic full saves in flight
    \* ---- inputs and outputs of the router and of the progress calculator ----
    routeValue,               \* a sous_categorie value given to getTabForNatureDemande
    routeOut,                 \* its result
    progressDocs,             \* a document list given to calculateProgress
    progressOut               \* its result

uiVars == <<documents, initialDocuments, recordProperties, loading, saving, error,
            isChanged, isCompleted, dossierState, initialCompletionStatus,
            initialDossierState, selectedTab, natureDemande, hasConfigError>>
envVars == <<catalog, store, fetches, syncs, save, timer, switchTimers, clicks, events,
            lastOp>>
evalVars == <<evalCond, evalItems, evalOut>>
condVars == <<condDoc, condBag, condOut>>
calcVars == <<calcDocs, calcOut>>
writeVars == <<call, crm>>
variantVars == <<autoSaves>>
viewVars == <<routeValue, routeOut, progressDocs, progressOut>>
pureVars == <<evalVars, condVars, calcVars, writeVars, variantVars, viewVars>>
vars == <<uiVars, envVars, pureVars>>

(***************************************************************************)
(* Bounds                                                                  *)
(***************************************************************************)
MaxLen == 4          \* longest text drawn as an item or a condition value
MaxItems == 2        \* most items drawn for a multi-value field
MaxFetches == 1      \* most mount / refocus fetches in flight at once
MaxEvents == 1       \* most out-of-band edits and failed calls in one run
MaxClicks == 3       \* most user gestures and refocuses in one run
MaxSyncs == 2        \* most partial syncs of missing_doc in flight at once
MaxTabs == 2         \* most tabs of a document given to checkDocumentConditions
MaxConds == 2        \* most conditions of one tab of that document
MaxDocs == 3         \* most documents given to calculateDossierState
MaxFields == 3       \* most fields of the documents parameter of updateDocuments
MaxCatalog == 3       \* most documents of a catalog given to the router
MaxAutoSaves == 2    \* most automatic saves of the earlier variant in flight at once

(***************************************************************************)
(* JavaScript string methods                                               *)
(***************************************************************************)
WhiteSpace == {" "}

RECURSIVE trimStart(_)
trimStart(s) ==
    IF s = <<>> THEN <<>>
    ELSE IF Head(s) \in WhiteSpace THEN trimStart(Tail(s)) ELSE s

RECURSIVE trimEnd(_)
trimEnd(s) ==
    IF s = <<>> THEN <<>>
    ELSE IF s[Len(s)] \in WhiteSpace THEN trimEnd(SubSeq(s, 1, Len(s) - 1)) ELSE s

\* String.prototype.trim
trim(s) == trimEnd(trimStart(s))

\* str.replace(/\s+/g, ' ')
RECURSIVE replaceWhitespaceRuns(_)
replaceWhitespaceRuns(s) ==
    IF s = <<>> THEN <<>>
    ELSE IF Head(s) \in WhiteSpace
         THEN <<" ">> \o replaceWhitespaceRuns(trimStart(s))
         ELSE <<Head(s)>> \o replaceWhitespaceRuns(Tail(s))

LowerOf == [c \in {"A", "B", "C", "O", "X", "Y"} |->
              CASE c = "A" -> "a" [] c = "B" -> "b" [] c = "C" -> "c"
                [] c = "O" -> "o" [] c = "X" -> "x" [] c = "Y" -> "y"]

\* String.prototype.toLowerCase
toLowerCase(s) ==
    [i \in 1..Len(s) |-> IF s[i] \in DOMAIN LowerOf THEN LowerOf[s[i]] ELSE s[i]]

\* toLowerCase on a field name (names are atoms: the fold is tabulated for the
\* names that have an upper-case spelling)
LowerKeyOf == [k \in {"Domicile__", "DOMICILE__"} |-> "domicile__"]
toLowerCaseKey(k) == IF k \in DOMAIN LowerKeyOf THEN LowerKeyOf[k] ELSE k

\* String.prototype.includes
includes(s, sub) ==
    \E i \in 1..(Len(s) - Len(sub) + 1) : SubSeq(s, i, i + Len(sub) - 1) = sub

\* String.prototype.split with a one-character separator
RECURSIVE split(_, _)
split(s, sep) ==
    IF \A i \in 1..Len(s) : s[i] # sep THEN <<s>>
    ELSE LET i == CHOOSE j \in 1..Len(s) : s[j] = sep /\ \A k \in 1..(j - 1) : s[k] # sep
         IN <<SubSeq(s, 1, i - 1)>> \o split(SubSeq(s, i + 1, Len(s)), sep)

\* Array.prototype.join
RECURSIVE join(_, _)
join(items, sep) ==
    IF items = <<>> THEN <<>>
    ELSE IF Len(items) = 1 THEN items[1]
    ELSE items[1] \o <<sep>> \o join(Tail(items), sep)

\* Array.prototype.filter(v => v !== '')
RECURSIVE filterNonEmpty(_)
filterNonEmpty(items) ==
    IF items = <<>> THEN <<>>
    ELSE IF Head(items) = <<>> THEN filterNonEmpty(Tail(items))
    ELSE <<Head(items)>> \o filterNonEmpty(Tail(items))

(***************************************************************************)
(* Property bags.  A bag is the sequence of its entries in insertion       *)
(* order (Object.keys order).  A value is a string ("string": one item,    *)
(* the text) or a native list ("array": its items).                        *)
(***************************************************************************)
StringValue(s) == [kind |-> "string", items |-> <<s>>]
ArrayValue(items) == [kind |-> "array", items |-> items]

\* String(value)
String(value) ==
    IF value.kind = "array" THEN join(value.items, ",") ELSE value.items[1]

\* JavaScript truthiness of a bag value: '' is falsy, every array is truthy
truthy(value) == value.kind = "array" \/ value.items[1] # <<>>

Object_keys(properties) == [i \in 1..Len(properties) |-> properties[i].key]

hasKey(properties, key) == \E i \in 1..Len(properties) : properties[i].key = key

\* properties[key], for a key the bag holds
getValue(properties, key) ==
    properties[CHOOSE i \in 1..Len(properties) : properties[i].key = key].value

\* Object.keys(properties).find(pred): the index of the first key accepted, 0 if none
findKey(properties, pred(_)) ==
    IF \E i \in 1..Len(properties) : pred(properties[i].key)
    THEN CHOOSE i \in 1..Len(properties) :
            pred(properties[i].key) /\ \A j \in 1..(i - 1) : ~pred(properties[j].key)
    ELSE 0

(***************************************************************************)
(* evaluateCondition (DocumentList.tsx 1108-1172)                          *)
(***************************************************************************)
normalizeForComparison(str) == replaceWhitespaceRuns(trim(str))

\* the property value found for the condition: exact key, else the first key
\* equal to it ignoring case; Undefined when neither exists
Undefined == [kind |-> "undefined", items |-> <<>>]

valueAt(properties, foundKey) ==
    IF foundKey # 0 THEN properties[foundKey].value ELSE Undefined

lookupProperty(condition, properties) ==
    IF hasKey(properties, condition.property)
    THEN getValue(properties, condition.property)
    ELSE valueAt(properties,
                 findKey(properties,
                         LAMBDA k : toLowerCaseKey(k) = toLowerCaseKey(condition.property)))

\* propertyValue ? String(propertyValue).trim() : ''
propValueStrOf(propertyValue) ==
    IF propertyValue.kind # "undefined" /\ truthy(propertyValue)
    THEN trim(String(propertyValue)) ELSE <<>>

\* split(sep).map(v => normalizeForComparison(v)).filter(v => v !== '')
normalizedItems(parts) ==
    filterNonEmpty([i \in 1..Len(parts) |-> normalizeForComparison(parts[i])])

someEquals(values, normalizedCondition) ==
    \E i \in 1..Len(values) : values[i] = normalizedCondition

\* a comparison of the whole value, without splitting
evaluateInWholeString(normalizedPropertyValue, normalizedCondition) ==
    normalizeForComparison(normalizedPropertyValue) = normalizedCondition

\* case 'in', for a property value that is a string
evaluateInString(normalizedPropertyValue, normalizedCondition) ==
    IF includes(normalizedPropertyValue, <<";">>)
    THEN someEquals(normalizedItems(split(normalizedPropertyValue, ";")), normalizedCondition)
    ELSE IF includes(normalizedPropertyValue, <<",">>)
    THEN someEquals(normalizedItems(split(normalizedPropertyValue, ",")), normalizedCondition)
    ELSE normalizeForComparison(normalizedPropertyValue) = normalizedCondition

\* case 'in', for a native list: membership by trimmed equality
evaluateInArray(items, normalizedConditionValue) ==
    \E i \in 1..Len(items) : trim(items[i]) = normalizedConditionValue

\* case 'in' of evaluateCondition
evaluateIn(propertyValue, propValueStr, conditionValue) ==
    IF propertyValue.kind = "undefined" \/ ~truthy(propertyValue) \/ propValueStr = <<>>
    THEN FALSE
    ELSE IF propertyValue.kind = "array"
         THEN evaluateInArray(propertyValue.items, trim(conditionValue))
         ELSE evaluateInString(trim(propValueStr),
                               normalizeForComparison(trim(conditionValue)))

evaluateOperator(operator, propertyValue, propValueStr, conditionValue) ==
    CASE operator = "equals" -> propValueStr = conditionValue
      [] operator = "not_equals" -> propValueStr # conditionValue
      [] operator = "contains" ->
           includes(toLowerCase(propValueStr), toLowerCase(conditionValue))
      [] operator = "not_contains" ->
           ~includes(toLowerCase(propValueStr), toLowerCase(conditionValue))
      [] operator = "in" -> evaluateIn(propertyValue, propValueStr, conditionValue)
      [] OTHER -> TRUE

evaluateFound(operator, propertyValue, conditionValue) ==
    evaluateOperator(operator, propertyValue, propValueStrOf(propertyValue), conditionValue)

evaluateCondition(condition, properties) ==
    evaluateFound(condition.operator, lookupProperty(condition, properties),
                  trim(condition.value))

(***************************************************************************)
(* Catalog helpers (DocumentList.tsx 113-161).  tabConfig is the sequence  *)
(* of its entries [tabId, order, conditions] in key order.                 *)
(***************************************************************************)
NoTab == ""          \* null / undefined tab id (falsy)

tabIndex(doc, tabId) ==
    IF \E i \in 1..Len(doc.tabConfig) : doc.tabConfig[i].tabId = tabId
    THEN CHOOSE i \in 1..Len(doc.tabConfig) : doc.tabConfig[i].tabId = tabId
    ELSE 0

documentBelongsToTab(doc, tabId) == tabIndex(doc, tabId) # 0

DefaultOrder == 9999

orderAt(doc, index) == IF index # 0 THEN doc.tabConfig[index].order ELSE DefaultOrder

getOrderForTab(doc, tabId) == orderAt(doc, tabIndex(doc, tabId))

conditionsAt(doc, index) == IF index # 0 THEN doc.tabConfig[index].conditions ELSE <<>>

getConditionsForTab(doc, tabId) == conditionsAt(doc, tabIndex(doc, tabId))

\* a pooling that stops at the first tab
firstTabConditions(doc) == conditionsAt(doc, IF Len(doc.tabConfig) > 0 THEN 1 ELSE 0)

RECURSIVE concatConditions(_)
concatConditions(tabConfig) ==
    IF tabConfig = <<>> THEN <<>>
    ELSE Head(tabConfig).conditions \o concatConditions(Tail(tabConfig))

getAllConditions(doc) == concatConditions(doc.tabConfig)

(***************************************************************************)
(* checkDocumentConditions (DocumentList.tsx 1183-1215)                    *)
(***************************************************************************)
\* conditionsByProperty.get(property).push(condition), creating the entry first
pushCondition(map, condition) ==
    IF \E i \in 1..Len(map) : map[i].property = condition.property
    THEN [i \in 1..Len(map) |->
             IF map[i].property = condition.property
             THEN [map[i] EXCEPT !.conditions = Append(@, condition)]
             ELSE map[i]]
    ELSE Append(map, [property |-> condition.property, conditions |-> <<condition>>])

\* the Map property -> conditions, built in one pass over the conditions;
\* a sequence of [property, conditions] in first-appearance order
RECURSIVE conditionsByProperty(_, _)
conditionsByProperty(conditions, map) ==
    IF conditions = <<>> THEN map
    ELSE conditionsByProperty(Tail(conditions), pushCondition(map, Head(conditions)))

\* a resolver that requires every condition of every group
everyConditionMatches(map, properties) ==
    \A g \in 1..Len(map) :
        \A c \in 1..Len(map[g].conditions) :
            evaluateCondition(map[g].conditions[c], properties)

\* entries.every(([property, propConditions]) => propConditions.some(evaluate))
everyGroupMatches(map, properties) ==
    \A g \in 1..Len(map) :
        \E c \in 1..Len(map[g].conditions) :
            evaluateCondition(map[g].conditions[c], properties)

allPropertyGroupsMatch(conditions, properties) ==
    IF Len(conditions) = 0 THEN TRUE
    ELSE everyGroupMatches(conditionsByProperty(conditions, <<>>), properties)

checkDocumentConditions(doc, properties, tabId) ==
    allPropertyGroupsMatch(IF tabId # NoTab THEN getConditionsForTab(doc, tabId)
                           ELSE getAllConditions(doc),
                           properties)

(***************************************************************************)
(* Catalogs (documents.json, tabs.json).  The repository ships these as    *)
(* data; the catalogs below are small instances with the shapes the code   *)
(* handles: one condition, conditions of several tabs on several           *)
(* properties, no condition, no tab at all.                                *)
(***************************************************************************)
TABS_CONFIG == <<"decret", "naturalisation_mariage", "autre">>

Cond(property, operator, value) ==
    [property |-> property, operator |-> operator, value |-> value]

TabEntry(tabId, order, conditions) ==
    [tabId |-> tabId, order |-> order, conditions |-> conditions]

\* D1: required when sous_categorie = "X"
DocPassport ==
    [id |-> "passport", name |-> <<"p">>,
     requiredProperty |-> "passport_required", providedProperty |-> "passport_provided",
     tabConfig |-> <<TabEntry("decret", 1, <<Cond("sous_categorie", "equals", <<"X">>)>>)>>]

\* in two tabs, with conditions on two properties
DocBail ==
    [id |-> "bail", name |-> <<"b">>,
     requiredProperty |-> "bail_required", providedProperty |-> "bail_provided",
     tabConfig |->
       <<TabEntry("decret", 2, <<Cond("sous_categorie", "equals", <<"X">>)>>),
         TabEntry("naturalisation_mariage", 1,
                  <<Cond("sous_categorie", "equals", <<"Y">>),
                    Cond("domicile__", "in", <<"B">>)>>)>>]

\* in a tab, without conditions
DocPhoto ==
    [id |-> "photo", name |-> <<"f">>,
     requiredProperty |-> "photo_required", providedProperty |-> "photo_provided",
     tabConfig |-> <<TabEntry("decret", 3, <<>>)>>]

\* in no tab
DocDivers ==
    [id |-> "divers", name |-> <<"d">>,
     requiredProperty |-> "divers_required", providedProperty |-> "divers_provided",
     tabConfig |-> <<>>]

CatalogA == <<DocPassport>>
CatalogB == <<DocBail, DocPhoto>>
CatalogC == <<DocPassport, DocDivers>>
Catalogs == {CatalogA, CatalogB, CatalogC}

\* the catalog entry of a runtime document ({...doc} keeps the config fields)
configOf(doc) == catalog[CHOOSE i \in 1..Len(catalog) : catalog[i].id = doc.id]

INITIAL_DOCUMENTS ==
    [i \in 1..Len(catalog) |->
        [id |-> catalog[i].id, required |-> FALSE, provided |-> FALSE]]

DOSSIER_STATES == [TO_BUILD |-> "À construire", INCOMPLETE |-> "En construction",
                   COMPLETE |-> "Complet"]

(***************************************************************************)
(* toBool (DocumentList.tsx 167-196) on the raw values a flag field holds  *)
(***************************************************************************)
toBool(value) == value \in {"true", "1", "yes", "oui"}

(***************************************************************************)
(* checkCompletion, calculateDossierState (DocumentList.tsx 221-244)       *)
(***************************************************************************)
\* a completion check that does not ask for a required document
checkCompletionOfNone(docs) == ~\E i \in 1..Len(docs) : docs[i].required /\ ~docs[i].provided

checkCompletion(docs) ==
    /\ ~\E i \in 1..Len(docs) : docs[i].required /\ ~docs[i].provided
    /\ \E i \in 1..Len(docs) : docs[i].required

\* a calculator that forgets the last branch: required documents of which
\* none is provided read as INCOMPLETE
calculateDossierStateWithoutFallback(docs) ==
    IF ~\E i \in 1..Len(docs) : docs[i].required
    THEN DOSSIER_STATES.TO_BUILD
    ELSE IF \A i \in 1..Len(docs) : docs[i].required => docs[i].provided
         THEN DOSSIER_STATES.COMPLETE
         ELSE DOSSIER_STATES.INCOMPLETE

calculateDossierState(docs) ==
    IF ~\E i \in 1..Len(docs) : docs[i].required
    THEN DOSSIER_STATES.TO_BUILD
    ELSE IF \E i \in 1..Len(docs) : docs[i].provided
         THEN IF \A i \in 1..Len(docs) : docs[i].required => docs[i].provided
              THEN DOSSIER_STATES.COMPLETE
              ELSE DOSSIER_STATES.INCOMPLETE
         ELSE DOSSIER_STATES.TO_BUILD

(***************************************************************************)
(* calculateMissingDocuments (DocumentList.tsx 264-285).  The summary      *)
(* <ul><li>name</li>...</ul> is kept as the sequence of its names; the     *)
(* empty sequence is the empty string.                                     *)
(***************************************************************************)
\* Array.prototype.filter
filterSeq(seq, keep(_)) ==
    LET kept[i \in 0..Len(seq)] ==
            IF i = 0 THEN <<>>
            ELSE IF keep(seq[i]) THEN Append(kept[i - 1], seq[i]) ELSE kept[i - 1]
    IN kept[Len(seq)]

hasConditionsOf(config) == Len(getAllConditions(config)) > 0

\* a summary that names every document that is not provided
isMissingUnprovided(doc, properties) == ~doc.provided

\* the filter predicate: required (flag or met conditions) and not provided
isMissing(doc, properties) ==
    /\ ~doc.provided
    /\ \/ doc.required
       \/ /\ hasConditionsOf(configOf(doc))
          /\ checkDocumentConditions(configOf(doc), properties, NoTab)

namesOf(missingDocs) ==
    [i \in 1..Len(missingDocs) |-> configOf(missingDocs[i]).name]

calculateMissingDocuments(docs, properties) ==
    filterSeq(namesOf(filterSeq(docs, LAMBDA doc : isMissing(doc, properties))),
              LAMBDA name : trim(name) # <<>>)

(***************************************************************************)
(* calculateProgress (DocumentList.tsx 1359-1382) and the progress bar     *)
(* (DocumentList.tsx 1501-1510)                                            *)
(***************************************************************************)
\* Math.round of the quotient num / den of two naturals, den > 0
MathRound(num, den) == (2 * num + den) \div (2 * den)

\* the filter predicate of requiredDocs: the flag, or conditions that are met
isCountedRequired(doc, properties) ==
    \/ doc.required
    \/ /\ hasConditionsOf(configOf(doc))
       /\ checkDocumentConditions(configOf(doc), properties, NoTab)

progressOf(requiredCount, providedCount) ==
    [provided |-> providedCount,
     required |-> requiredCount,
     percentage |-> IF requiredCount > 0 THEN MathRound(providedCount * 100, requiredCount)
                    ELSE 100]

\* a calculator that counts the provided documents of the whole list
calculateProgressOfAll(docs, properties) ==
    progressOf(Len(filterSeq(docs, LAMBDA doc : isCountedRequired(doc, properties))),
               Len(filterSeq(docs, LAMBDA doc : doc.provided)))

calculateProgress(docs, properties) ==
    progressOf(Len(filterSeq(docs, LAMBDA doc : isCountedRequired(doc, properties))),
               Len(filterSeq(filterSeq(docs, LAMBDA doc : isCountedRequired(doc, properties)),
                             LAMBDA doc : doc.provided)))

\* {progress.required > 0 && <ProgressBar ... />}
progressBarRendered(progress) == progress.required > 0

(***************************************************************************)
(* getTabForNatureDemande, getActiveTabId (DocumentList.tsx 1221-1267)     *)
(***************************************************************************)
\* the tab entry holds a matching sous_categorie condition
entryMatches(entry, normalizedValue) ==
    \E c \in 1..Len(entry.conditions) :
        /\ entry.conditions[c].property = "sous_categorie"
        /\ entry.conditions[c].operator = "equals"
        /\ normalizeForComparison(entry.conditions[c].value) = normalizedValue

\* the (document, tab entry) pairs in catalog order, documents outermost
RECURSIVE tabEntriesOf(_)
tabEntriesOf(cat) ==
    IF cat = <<>> THEN <<>> ELSE Head(cat).tabConfig \o tabEntriesOf(Tail(cat))

\* a router that returns the first tab entry of the catalog, matching or not
firstTabOfCatalog(entries, normalizedValue) ==
    IF entries = <<>> THEN NoTab ELSE entries[1].tabId

\* the loops return at the first matching entry
firstMatchingTab(entries, normalizedValue) ==
    IF \E i \in 1..Len(entries) : entryMatches(entries[i], normalizedValue)
    THEN entries[CHOOSE i \in 1..Len(entries) :
                    /\ entryMatches(entries[i], normalizedValue)
                    /\ \A j \in 1..(i - 1) : ~entryMatches(entries[j], normalizedValue)].tabId
    ELSE NoTab

getTabForNatureDemande(natureDemandeValue) ==
    IF natureDemandeValue = <<>> THEN NoTab
    ELSE firstMatchingTab(tabEntriesOf(catalog), normalizeForComparison(natureDemandeValue))

activeTabIdOf(nature) ==
    IF nature = <<>> THEN NoTab ELSE getTabForNatureDemande(nature)

getActiveTabId == activeTabIdOf(natureDemande)

(***************************************************************************)
(* getVisibleDocuments (DocumentList.tsx 1274-1353), without search text   *)
(***************************************************************************)
\* { ...bag, [key]: value }
setProperty(properties, key, value) ==
    IF hasKey(properties, key)
    THEN [i \in 1..Len(properties) |->
             IF properties[i].key = key THEN [key |-> key, value |-> value]
             ELSE properties[i]]
    ELSE Append(properties, [key |-> key, value |-> value])

\* Array.prototype.sort by getOrderForTab (stable): position of an element =
\* number of elements ordered before it
rankIn(docs, i, tabId) ==
    Cardinality({j \in 1..Len(docs) :
        \/ getOrderForTab(configOf(docs[j]), tabId) < getOrderForTab(configOf(docs[i]), tabId)
        \/ /\ getOrderForTab(configOf(docs[j]), tabId) = getOrderForTab(configOf(docs[i]), tabId)
           /\ j <= i})

sortByOrder(docs, tabId) ==
    [r \in 1..Len(docs) |-> docs[CHOOSE i \in 1..Len(docs) : rankIn(docs, i, tabId) = r]]

propsForConditionsOf(properties, nature) ==
    IF nature # <<>> /\ (~hasKey(properties, "sous_categorie")
                         \/ ~truthy(getValue(properties, "sous_categorie")))
    THEN setProperty(properties, "sous_categorie", StringValue(nature))
    ELSE properties

\* an overflow view that shows the flagged documents alone
visibleGivenFlaggedOnly(doc, belongsToActive, belongsToSelected, conditionsMet, activeTabId, tab) ==
    IF tab = "autre"
    THEN (doc.required \/ doc.provided)
         /\ ~(conditionsMet /\ activeTabId # NoTab /\ belongsToActive)
    ELSE IF ~belongsToSelected THEN FALSE
         ELSE conditionsMet \/ (doc.required /\ doc.provided)

\* an active view that shows the documents whose conditions are met alone
visibleGivenMetOnly(doc, belongsToActive, belongsToSelected, conditionsMet, activeTabId, tab) ==
    IF tab = "autre"
    THEN IF doc.required \/ doc.provided
         THEN ~(conditionsMet /\ activeTabId # NoTab /\ belongsToActive)
         ELSE activeTabId # NoTab /\ belongsToActive /\ ~conditionsMet
    ELSE belongsToSelected /\ conditionsMet

\* an overflow view that shows the unmet documents of the active view alone
visibleGivenUnmetOnly(doc, belongsToActive, belongsToSelected, conditionsMet, activeTabId, tab) ==
    IF tab = "autre"
    THEN activeTabId # NoTab /\ belongsToActive /\ ~conditionsMet
    ELSE IF ~belongsToSelected THEN FALSE
         ELSE conditionsMet \/ (doc.required /\ doc.provided)

\* the branches of the filter predicate, once conditionsMet is known
visibleGiven(doc, belongsToActive, belongsToSelected, conditionsMet, activeTabId, tab) ==
    IF tab = "autre"
    THEN IF doc.required \/ doc.provided
         THEN ~(conditionsMet /\ activeTabId # NoTab /\ belongsToActive)
         ELSE IF activeTabId = NoTab THEN FALSE
         ELSE IF ~belongsToActive THEN FALSE
         ELSE ~conditionsMet
    ELSE IF ~belongsToSelected THEN FALSE
         ELSE conditionsMet \/ (doc.required /\ doc.provided)

\* the filter predicate of getVisibleDocuments
isVisible(doc, propsForConditions, activeTabId, tab) ==
    visibleGiven(doc,
                 activeTabId # NoTab /\ documentBelongsToTab(configOf(doc), activeTabId),
                 documentBelongsToTab(configOf(doc), tab),
                 checkDocumentConditions(configOf(doc), propsForConditions, activeTabId),
                 activeTabId, tab)

filterVisible(docs, propsForConditions, activeTabId, tab) ==
    sortByOrder(filterSeq(docs, LAMBDA doc : isVisible(doc, propsForConditions, activeTabId, tab)),
                tab)

visibleDocuments(docs, properties, nature, tab) ==
    IF Len(docs) = 0 THEN <<>>
    ELSE filterVisible(docs, propsForConditionsOf(properties, nature),
                       activeTabIdOf(nature), tab)

getVisibleDocuments ==
    visibleDocuments(documents, recordProperties, natureDemande, selectedTab)

(***************************************************************************)
(* The required status resolved by fetchDocumentValues                     *)
(* (DocumentList.tsx 643-701)                                              *)
(***************************************************************************)
\* a resolution that reads the stored flag alone
requiredFromStoreOnly(hasConditions, conditionsMet, requiredFromHubSpot, provided) ==
    requiredFromHubSpot

\* a resolution that keeps the stored flag under unmet conditions whether or
\* not the document is provided
requiredIgnoringProvided(hasConditions, conditionsMet, requiredFromHubSpot, provided) ==
    IF hasConditions
    THEN IF conditionsMet THEN TRUE ELSE requiredFromHubSpot
    ELSE requiredFromHubSpot

\* a resolution that follows the conditions alone where there are conditions
requiredFromConditionsOnly(hasConditions, conditionsMet, requiredFromHubSpot, provided) ==
    IF hasConditions THEN conditionsMet ELSE requiredFromHubSpot

requiredGiven(hasConditions, conditionsMet, requiredFromHubSpot, provided) ==
    IF hasConditions
    THEN IF conditionsMet THEN TRUE
         ELSE IF provided THEN requiredFromHubSpot ELSE FALSE
    ELSE requiredFromHubSpot

resolveRequired(config, properties, requiredFromHubSpot, provided) ==
    requiredGiven(hasConditionsOf(config),
                  checkDocumentConditions(config, properties, NoTab),
                  requiredFromHubSpot, provided)

(***************************************************************************)
(* The map callback of handleCheckboxToggle (DocumentList.tsx 736-760)     *)
(***************************************************************************)
\* a toggle that never consults the conditions
toggleRequiredUnguarded(doc, checked, hasConditions, conditionsMet, isAutreTab) ==
    [doc EXCEPT !.required = checked]

toggleRequired(doc, checked, hasConditions, conditionsMet, isAutreTab) ==
    IF hasConditions /\ ~isAutreTab
    THEN IF conditionsMet /\ ~checked THEN doc
         ELSE IF ~conditionsMet /\ checked THEN doc
         ELSE [doc EXCEPT !.required = conditionsMet]
    ELSE [doc EXCEPT !.required = checked]

toggleDocument(doc, field, checked, properties, tab) ==
    IF field = "required"
    THEN toggleRequired(doc, checked, hasConditionsOf(configOf(doc)),
                        checkDocumentConditions(configOf(doc), properties, NoTab),
                        tab = "autre")
    ELSE [doc EXCEPT !.provided = checked]

handleCheckboxToggle(prevDocs, documentId, field, checked, properties, tab) ==
    [i \in 1..Len(prevDocs) |->
        IF prevDocs[i].id = documentId
        THEN toggleDocument(prevDocs[i], field, checked, properties, tab)
        ELSE prevDocs[i]]

\* checkForChanges (DocumentList.tsx 773-781, 792-802)
changesAgainst(docs, completion, state, baseDocs, baseCompletion, baseState) ==
    \/ completion # baseCompletion
    \/ state # baseState
    \/ \E i \in 1..Len(docs) :
          IF i > Len(baseDocs) THEN TRUE
          ELSE docs[i].required # baseDocs[i].required
               \/ docs[i].provided # baseDocs[i].provided

(***************************************************************************)
(* The record store and the serverless environment                         *)
(***************************************************************************)
X == <<"X">>
Y == <<"Y">>
AB == <<"A", ";", "B">>
CategoryValues == {<<>>, X, Y}
DomicileValues == {<<>>, AB}
\* the values of domicile__ that matter to a catalog
DomicileValuesOf(cat) ==
    IF \E i \in 1..Len(cat) : \E c \in 1..Len(getAllConditions(cat[i])) :
           getAllConditions(cat[i])[c].property = "domicile__"
    THEN DomicileValues ELSE {<<>>}

InitialFlags == {"", "true"}

FlagProperties(cat) ==
    {cat[i].requiredProperty : i \in 1..Len(cat)}
        \cup {cat[i].providedProperty : i \in 1..Len(cat)}

\* a record whose flag fields all hold raw, and whose status fields are empty;
\* token: PRIVATE_APP_ACCESS_TOKEN is configured
NewRecord(cat, category, domicile, raw) ==
    [exists |-> TRUE,
     token |-> TRUE,
     sous_categorie |-> category,
     domicile__ |-> domicile,
     flags |-> [p \in FlagProperties(cat) |-> raw],
     documents_completed |-> "",
     etat_du_dossier |-> "",
     missing_doc |-> <<>>]

\* getDocumentValues.js 95-98: a flag field that is null or '' reads 'false'
readFlag(raw) == IF raw = "" THEN "false" ELSE raw

\* sous_categorie as fetchDocumentValues keeps it (DocumentList.tsx 596-615)
trimmedOr(nd, raw) == IF nd # <<>> THEN nd ELSE raw

\* the bag of conditional properties returned by getDocumentValues
fetchedProperties(st) ==
    <<[key |-> "sous_categorie",
       value |-> StringValue(trimmedOr(trim(st.sous_categorie), st.sous_categorie))],
      [key |-> "domicile__", value |-> StringValue(st.domicile__)]>>

\* updatedDocuments of fetchDocumentValues (DocumentList.tsx 643-701)
fetchedDocuments(st, properties) ==
    [i \in 1..Len(catalog) |->
        [id |-> catalog[i].id,
         required |-> resolveRequired(catalog[i], properties,
                                      toBool(readFlag(st.flags[catalog[i].requiredProperty])),
                                      toBool(readFlag(st.flags[catalog[i].providedProperty]))),
         provided |-> toBool(readFlag(st.flags[catalog[i].providedProperty]))]]

\* what getDocumentValues answers (getDocumentValues.js 43-45, 86-89, 116-118);
\* "failure" is an API failure or exception of one call
FetchOutcomes ==
    IF ~store.token THEN {"config"}
    ELSE IF ~store.exists THEN {"error"}
    ELSE {"ok", "failure"}

\* what updateDocuments and updateCompletionStatus answer (updateDocuments.js
\* 35-40, 92-95; part_001 36-41, 109-112): a record that no longer exists
\* answers success without a write
WriteOutcomes ==
    IF ~store.token THEN {"config"}
    ELSE IF ~store.exists THEN {"skipped"}
    ELSE {"ok", "failure"}

Outcomes == {"ok", "skipped", "config", "error", "failure"}

(***************************************************************************)
(* Requests in flight, timers, history                                     *)
(***************************************************************************)
NoSave == [phase |-> "none", docs |-> <<>>, completion |-> FALSE,
           state |-> DOSSIER_STATES.TO_BUILD, missing |-> <<>>, cfg |-> FALSE, switchTo |-> NoTab]
NoTimer == [set |-> FALSE, missing |-> <<>>, cfg |-> FALSE]
Op(op, id, field, checked) == [op |-> op, id |-> id, field |-> field, checked |-> checked]
OpOf(op) == Op(op, "", "", FALSE)

\* the effect on [documents, isCompleted, dossierState] (DocumentList.tsx
\* 1040-1055): it runs after a render that changed them, replaces the pending
\* timeout, and calls checkForChanges when its guard holds
effectRuns(docs, baseDocs, isLoading, properties) ==
    Len(baseDocs) > 0 /\ Len(docs) > 0 /\ ~isLoading /\ Len(properties) > 0

effectTimer(runs, missing, cfg) ==
    IF runs THEN [set |-> TRUE, missing |-> missing, cfg |-> cfg] ELSE NoTimer

\* updateMissingDocProperty (DocumentList.tsx 340-358): skipped under the
\* configuration-error flag of the calling closure, else one more call in flight
issueSync(inFlight, missing, cfg) == IF cfg THEN inFlight ELSE inFlight \cup {missing}

\* the calls of updateMissingDocProperty in flight are capped
canIssue(missing, cfg) == cfg \/ missing \in syncs \/ Cardinality(syncs) < MaxSyncs

\* one user gesture is spent
click == clicks < MaxClicks /\ clicks' = clicks + 1

\* a call that fails for a transient reason spends the one environment event
spend(outcome) ==
    IF outcome = "failure" THEN events < MaxEvents /\ events' = events + 1
    ELSE UNCHANGED events

(***************************************************************************)
(* The serverless write functions: updateDocuments in its two versions     *)
(* (updateDocuments.js 20-250, nested retries; 289-407, retry loop) and    *)
(* updateCompletionStatus in its two versions (part_001, per-field         *)
(* fallback; part_002), against the CRM API                                *)
(***************************************************************************)
FieldNames == <<"foo_required", "foo_provided", "bar_required", "bar_provided">>
DocumentFields ==
    {FieldNames[i] : i \in {j \in 1..Len(FieldNames) : j <= MaxFields}}
\* PROPS.STATE of the source is PROPS.DOSSIER here, STATE being a reserved word
PROPS == [COMPLETION |-> "documents_completed", DOSSIER |-> "etat_du_dossier",
          MISSING |-> "missing_doc"]
StatusFields == {PROPS.COMPLETION, PROPS.DOSSIER, PROPS.MISSING}
Functions == {"updateDocuments.nested", "updateDocuments.loop",
              "updateCompletionStatus.fallback", "updateCompletionStatus.partial"}

\* a batch: field name -> value, on the fields it names
without(properties, names) == [f \in DOMAIN properties \ names |-> properties[f]]
only(properties, names) == [f \in DOMAIN properties \cap names |-> properties[f]]
NoProperties == [f \in {} |-> ""]

\* properties of updateDocuments: a boolean is written as 'true' or 'false'
documentProperties(docs) ==
    [f \in DOMAIN docs |-> IF docs[f] THEN "true" ELSE "false"]

\* properties that name the dossier state whether it was given or not
statusPropertiesWithState(parameters) ==
    [f \in DOMAIN parameters \cup {PROPS.DOSSIER} |->
        IF f = PROPS.COMPLETION THEN (IF parameters[f] THEN "true" ELSE "false")
        ELSE IF f = PROPS.DOSSIER THEN DOSSIER_STATES.COMPLETE ELSE "<ul>"]

\* properties of updateCompletionStatus: the three fields of a full save, or
\* missing_doc alone for a partial sync
statusProperties(parameters) ==
    [f \in DOMAIN parameters |->
        IF f = PROPS.COMPLETION THEN (IF parameters[f] THEN "true" ELSE "false")
        ELSE IF f = PROPS.DOSSIER THEN DOSSIER_STATES.COMPLETE ELSE "<ul>"]

\* what the API answers to an update: 200, 404, a 400 that names fields as
\* non-existent (in errors[].context.propertyName, in errors[].message or in
\* a string body), a 400 that names none, or another failure
Carriers == {"context", "message", "string"}
Ok == [code |-> 200, carrier |-> "none", names |-> {}]
NotFound == [code |-> 404, carrier |-> "none", names |-> {}]
Invalid == [code |-> 400, carrier |-> "message", names |-> {}]
ServerError == [code |-> 500, carrier |-> "none", names |-> {}]
Rejected(carrier, names) == [code |-> 400, carrier |-> carrier, names |-> names]

\* the API rejects a batch that names a field outside the schema, naming some
\* of those fields, and writes nothing of it
ApiAnswers(record, properties) ==
    IF ~record.exists THEN {NotFound}
    ELSE {ServerError, Invalid}
            \cup (IF DOMAIN properties \subseteq record.schema THEN {Ok}
                  ELSE {Rejected(c, names) :
                           c \in Carriers,
                           names \in SUBSET (DOMAIN properties \ record.schema) \ {{}}})

\* basicApi.update: the fields of an accepted batch are written together
written(record, properties, answer) ==
    IF answer.code = 200
    THEN [record EXCEPT !.values = [f \in DOMAIN @ |->
                                       IF f \in DOMAIN properties THEN properties[f] ELSE @[f]]]
    ELSE record

Pending == [status |-> "pending", note |-> "", failed |-> {}]
NewCall(fn, parameters) ==
    [fn |-> fn, parameters |-> parameters, pc |-> "start", properties |-> NoProperties,
     retries |-> 0, sent |-> <<>>, answers |-> <<>>, queue |-> <<>>, updated |-> {},
     failed |-> {}, result |-> Pending]

\* the function returns
return(c, status, note, failed) ==
    [c EXCEPT !.pc = "done", !.result = [status |-> status, note |-> note, failed |-> failed]]
\* the function awaits basicApi.update(properties)
update(c, properties, pc) ==
    [c EXCEPT !.properties = properties, !.sent = Append(@, properties), !.pc = pc]

\* the names each function reads out of a 400
\* updateDocuments.js 98-143: string body, context.propertyName and message
failedPropertiesOf(answer) == answer.names
\* updateDocuments.js 160-172: context.propertyName alone
moreFailedPropsOf(answer) == IF answer.carrier = "context" THEN answer.names ELSE {}
\* updateDocuments.js 254-287
extractFailedProperties(answer) == answer.names
\* part_001 115-129 and part_002 9-18: one name, out of a string body or a message
propertyErrorsOf(answer) ==
    IF answer.carrier \in {"message", "string"} /\ answer.names # {} THEN answer.names ELSE {""}

(***************************************************************************)
(* updateDocuments, nested retries (updateDocuments.js 20-250)             *)
(***************************************************************************)
nestedStart(c, token) ==
    IF ~token THEN return(c, "error", "api_key", {})
    ELSE IF DOMAIN documentProperties(c.parameters) = {}
    THEN return(c, "success", "no_properties", {})
    ELSE update(c, documentProperties(c.parameters), "first")

\* catch (firstErr), lines 92-209
nestedFirst(c, answer, failedProperties) ==
    IF answer.code = 200 THEN return(c, "success", "updated", {})
    ELSE IF answer.code = 404 THEN return(c, "success", "not_found", {})
    ELSE IF answer.code = 400 /\ failedProperties # {}
    THEN IF DOMAIN without(c.properties, failedProperties) # {}
         THEN update(c, without(c.properties, failedProperties), "retry")
         ELSE return([c EXCEPT !.properties = NoProperties], "success", "skipped", {})
    ELSE return(c, "error", "thrown", {})

\* catch (retryErr), lines 159-195
nestedRetry(c, answer, moreFailedProps) ==
    IF answer.code = 200 THEN return(c, "success", "updated", {})
    ELSE IF answer.code = 400
    THEN IF DOMAIN without(c.properties, moreFailedProps) # {}
         THEN update(c, without(c.properties, moreFailedProps), "retry2")
         ELSE return([c EXCEPT !.properties = NoProperties], "success", "skipped", {})
    ELSE return(c, "error", "thrown", {})

\* the third update, line 180: its error reaches catch (apiError)
nestedRetry2(c, answer) ==
    IF answer.code = 200 THEN return(c, "success", "updated", {})
    ELSE return(c, "error", "thrown", {})

nestedStep(c, answer) ==
    IF c.pc = "first" THEN nestedFirst(c, answer, failedPropertiesOf(answer))
    ELSE IF c.pc = "retry" THEN nestedRetry(c, answer, moreFailedPropsOf(answer))
    ELSE nestedRetry2(c, answer)

(***************************************************************************)
(* updateDocuments, retry loop (updateDocuments.js 289-407)                *)
(***************************************************************************)
loopStart(c, token) ==
    IF ~token THEN return(c, "error", "api_key", {})
    ELSE IF DOMAIN documentProperties(c.parameters) = {}
    THEN return(c, "success", "no_properties", {})
    ELSE update([c EXCEPT !.retries = 2], documentProperties(c.parameters), "loop")

\* retries--, then the while condition (lines 345, 372, 383-387)
loopAgain(c, properties) ==
    IF c.retries - 1 > 0
    THEN update([c EXCEPT !.retries = @ - 1], properties, "loop")
    ELSE return([c EXCEPT !.retries = @ - 1, !.properties = properties],
                "error", "failed_after_retries", {})

\* a loop body without the test for an empty batch
loopPassRetryingEmpty(c, answer, failed) ==
    IF answer.code = 200 THEN return(c, "success", "updated", {})
    ELSE IF answer.code = 404 THEN return(c, "success", "not_found", {})
    ELSE IF answer.code = 400 /\ failed # {}
    THEN loopAgain(c, without(c.properties, failed))
    ELSE return(c, "error", "thrown", {})

\* one pass of the loop body after the await, lines 346-380
loopPass(c, answer, failed) ==
    IF answer.code = 200 THEN return(c, "success", "updated", {})
    ELSE IF answer.code = 404 THEN return(c, "success", "not_found", {})
    ELSE IF answer.code = 400 /\ failed # {}
    THEN IF DOMAIN without(c.properties, failed) = {}
         THEN return([c EXCEPT !.properties = NoProperties], "success", "skipped", {})
         ELSE loopAgain(c, without(c.properties, failed))
    ELSE return(c, "error", "thrown", {})

loopStep(c, answer) == loopPass(c, answer, extractFailedProperties(answer))

(***************************************************************************)
(* updateCompletionStatus with the per-field fallback (part_001)           *)
(***************************************************************************)
statusStart(c, token, pc) ==
    IF ~token THEN return(c, "error", "api_key", {})
    ELSE update(c, statusProperties(c.parameters), pc)

\* the single-field updates of lines 212-250: documents_completed if given,
\* etat_du_dossier always, missing_doc if given
fallbackQueue(parameters) ==
    IF PROPS.COMPLETION \in DOMAIN parameters
    THEN <<PROPS.COMPLETION, PROPS.DOSSIER, PROPS.MISSING>>
    ELSE <<PROPS.DOSSIER, PROPS.MISSING>>

\* the next single-field update, or the outcome of the fallback (lines 252-267)
nextField(c) ==
    IF c.queue # <<>>
    THEN update(c, only(statusProperties(c.parameters), {Head(c.queue)}), "field")
    ELSE IF c.updated # {} THEN return(c, "partial_success", "some_updated", c.failed)
    ELSE return(c, "error", "thrown", {})

\* catch (firstErr), lines 109-267
fallbackFirst(c, answer, propertyError) ==
    IF answer.code = 200 THEN return(c, "success", "updated", {})
    ELSE IF answer.code = 404 THEN return(c, "success", "not_found", {})
    ELSE IF answer.code = 400
    THEN IF propertyError \in StatusFields
         THEN update(c, without(statusProperties(c.parameters), {propertyError}), "retry")
         ELSE nextField([c EXCEPT !.queue = fallbackQueue(c.parameters)])
    ELSE return(c, "error", "thrown", {})

\* the retry without the named field: its error is dropped and firstErr thrown
fallbackRetry(c, answer) ==
    IF answer.code = 200 THEN return(c, "success", "updated_without", {})
    ELSE return(c, "error", "thrown", {})

\* the single-field update of the field at the head of the queue has
\* answered: the field is recorded as updated or as failed under its name,
\* whatever the value that was sent
fieldAnswered(c, answer) ==
    nextField(IF answer.code = 200
              THEN [c EXCEPT !.updated = @ \cup {Head(c.queue)}, !.queue = Tail(@)]
              ELSE [c EXCEPT !.failed = @ \cup {Head(c.queue)}, !.queue = Tail(@)])

fallbackStep(c, answer, propertyError) ==
    IF c.pc = "first" THEN fallbackFirst(c, answer, propertyError)
    ELSE IF c.pc = "retry" THEN fallbackRetry(c, answer)
    ELSE fieldAnswered(c, answer)

(***************************************************************************)
(* updateCompletionStatus, second version (part_002)                       *)
(***************************************************************************)
RECURSIVE keysOf(_, _)
\* Object.entries(properties) in insertion order
keysOf(properties, order) ==
    IF order = <<>> THEN <<>>
    ELSE IF Head(order) \in DOMAIN properties
         THEN <<Head(order)>> \o keysOf(properties, Tail(order))
         ELSE keysOf(properties, Tail(order))

entriesOf(properties) ==
    keysOf(properties, <<PROPS.COMPLETION, PROPS.DOSSIER, PROPS.MISSING>>)

\* catch (err), lines 88-132
partialFirst(c, answer, failedProp) ==
    IF answer.code = 200 THEN return(c, "success", "updated", {})
    ELSE IF answer.code = 404 THEN return(c, "success", "not_found", {})
    ELSE IF answer.code = 400
    THEN IF failedProp \in DOMAIN c.properties
         THEN IF DOMAIN without(c.properties, {failedProp}) # {}
              THEN update(c, without(c.properties, {failedProp}), "retry")
              ELSE nextField([c EXCEPT !.properties = NoProperties, !.queue = <<>>])
         ELSE nextField([c EXCEPT !.queue = entriesOf(c.properties)])
    ELSE return(c, "error", "thrown", {})

\* the retry, lines 99-107: its error is dropped and the loop over the
\* remaining properties follows
partialRetry(c, answer) ==
    IF answer.code = 200 THEN return(c, "success", "updated_without", {})
    ELSE nextField([c EXCEPT !.queue = entriesOf(c.properties)])

partialStep(c, answer, failedProp) ==
    IF c.pc = "first" THEN partialFirst(c, answer, failedProp)
    ELSE IF c.pc = "retry" THEN partialRetry(c, answer)
    ELSE fieldAnswered(c, answer)

WriteIdle ==
    /\ call = NewCall("updateDocuments.loop", NoProperties)
    /\ crm = [exists |-> TRUE, token |-> TRUE, schema |-> {}, values |-> NoProperties]

(***************************************************************************)
(* Initial state: the component is mounted and its first fetch is in flight*)
(***************************************************************************)
UiInit ==
    /\ documents = INITIAL_DOCUMENTS
    /\ initialDocuments = <<>>
    /\ recordProperties = <<>>
    /\ loading = TRUE
    /\ saving = FALSE
    /\ error = ""
    /\ isChanged = FALSE
    /\ isCompleted = FALSE
    /\ dossierState = DOSSIER_STATES.TO_BUILD
    /\ initialCompletionStatus = FALSE
    /\ initialDossierState = DOSSIER_STATES.TO_BUILD
    /\ selectedTab = TABS_CONFIG[1]
    /\ natureDemande = <<>>
    /\ hasConfigError = FALSE

EnvInit ==
    /\ fetches = 1
    /\ autoSaves = <<>>
    /\ syncs = {}
    /\ save = NoSave
    /\ timer = NoTimer
    /\ switchTimers = {}
    /\ clicks = 0
    /\ events = 0
    /\ lastOp = OpOf("init")

NotEvaluated == [done |-> FALSE]

EvalIdle ==
    /\ evalCond = Cond("domicile__", "in", <<>>)
    /\ evalItems = <<>>
    /\ evalOut = NotEvaluated

CondIdle ==
    /\ condDoc = DocPhoto
    /\ condBag = <<>>
    /\ condOut = NotEvaluated

CalcIdle ==
    /\ calcDocs = <<>>
    /\ calcOut = NotEvaluated

ViewIdle ==
    /\ routeValue = <<>>
    /\ routeOut = NotEvaluated
    /\ progressDocs = <<>>
    /\ progressOut = NotEvaluated

Init ==
    /\ catalog \in Catalogs
    /\ UiInit
    /\ \E category \in CategoryValues, domicile \in DomicileValuesOf(catalog),
          raw \in InitialFlags :
          store = NewRecord(catalog, category, domicile, raw)
    /\ EnvInit
    /\ EvalIdle
    /\ CondIdle
    /\ CalcIdle
    /\ WriteIdle
    /\ ViewIdle

(***************************************************************************)
(* fetchDocumentValues (DocumentList.tsx 487-728)                          *)
(***************************************************************************)
\* the state set by the continuation after the await, in one render
FetchOkState(properties, nd, tabId, updatedDocuments, completion, state, missingDocs, runs) ==
    /\ canIssue(missingDocs, FALSE)
    /\ documents' = updatedDocuments
    /\ initialDocuments' = updatedDocuments
    /\ recordProperties' = properties
    /\ isCompleted' = completion
    /\ initialCompletionStatus' = completion
    /\ dossierState' = state
    /\ initialDossierState' = state
    /\ natureDemande' = nd
    /\ selectedTab' = IF nd # <<>> /\ tabId # NoTab THEN tabId ELSE selectedTab
    /\ loading' = FALSE
    /\ isChanged' = FALSE
    /\ syncs' = issueSync(syncs, missingDocs, FALSE)
    /\ timer' = effectTimer(runs, missingDocs, hasConfigError)
    /\ UNCHANGED <<error, hasConfigError>>

\* the completion flag and dossier state kept: the fetched ones, or the
\* calculated ones when either differs (DocumentList.tsx 704-715)
FetchOkResolved(properties, nd, updatedDocuments, completionStatus, currentDossierState, calculatedCompletion, calculatedDossierState) ==
    FetchOkState(properties, nd, getTabForNatureDemande(nd), updatedDocuments,
                 IF calculatedCompletion # completionStatus
                    \/ calculatedDossierState # currentDossierState
                 THEN calculatedCompletion ELSE completionStatus,
                 IF calculatedCompletion # completionStatus
                    \/ calculatedDossierState # currentDossierState
                 THEN calculatedDossierState ELSE currentDossierState,
                 calculateMissingDocuments(updatedDocuments, properties),
                 effectRuns(updatedDocuments, updatedDocuments, FALSE, properties))

FetchOkWith(properties, updatedDocuments) ==
    FetchOkResolved(properties, trim(store.sous_categorie), updatedDocuments,
                    toBool(store.documents_completed),
                    IF store.etat_du_dossier = "" THEN DOSSIER_STATES.TO_BUILD
                    ELSE store.etat_du_dossier,
                    checkCompletion(updatedDocuments),
                    calculateDossierState(updatedDocuments))

FetchOkFrom(properties) == FetchOkWith(properties, fetchedDocuments(store, properties))

\* the continuation of fetchDocumentValues after the await; the calling
\* closure's hasConfigError is false (the function returned early otherwise)
ApplyFetchOk == FetchOkFrom(fetchedProperties(store))

ApplyFetchFailed(outcome) ==
    /\ loading' = FALSE
    /\ error' = IF outcome = "config" THEN "config" ELSE "error"
    /\ hasConfigError' = IF outcome = "config" THEN TRUE ELSE hasConfigError
    /\ UNCHANGED <<documents, initialDocuments, recordProperties, isChanged, isCompleted,
                   dossierState, initialCompletionStatus, initialDossierState,
                   selectedTab, natureDemande, syncs, timer>>

ApplyFetch(outcome) ==
    IF outcome = "ok" THEN ApplyFetchOk ELSE ApplyFetchFailed(outcome)

\* window focus (DocumentList.tsx 247-258): the listener holds the first
\* render's fetchDocumentValues, whose hasConfigError is false
Focus ==
    /\ click
    /\ fetches < MaxFetches
    /\ fetches' = fetches + 1
    /\ loading' = TRUE
    /\ error' = ""
    /\ lastOp' = OpOf("focus")
    /\ UNCHANGED <<documents, initialDocuments, recordProperties, saving, isChanged,
                   isCompleted, dossierState, initialCompletionStatus,
                   initialDossierState, selectedTab, natureDemande, hasConfigError,
                   catalog, store, syncs, save, timer, switchTimers, events>>
    /\ UNCHANGED pureVars

FetchComplete(outcome) ==
    /\ fetches > 0
    /\ outcome \in FetchOutcomes
    /\ spend(outcome)
    /\ fetches' = fetches - 1
    /\ ApplyFetch(outcome)
    /\ lastOp' = OpOf(IF outcome = "ok" THEN "fetchOk" ELSE "fetchFailed")
    /\ UNCHANGED <<clicks, saving, catalog, store, save, switchTimers>>
    /\ UNCHANGED pureVars

(***************************************************************************)
(* User actions: checkbox toggle, tab selection, reset                     *)
(***************************************************************************)
containsId(docs, id) == \E j \in 1..Len(docs) : docs[j].id = id

\* the render is the spinner alone while loading (DocumentList.tsx 1611-1617)
isRendered(doc) == ~loading /\ containsId(getVisibleDocuments, doc.id)

\* the required checkbox is read-only (DocumentList.tsx 1554-1588)
isRequiredByCondition(doc) ==
    /\ hasConditionsOf(configOf(doc))
    /\ checkDocumentConditions(configOf(doc), recordProperties, NoTab)

ToggleState(id, field, checked, newDocs, newCompletionStatus, newDossierState, missingDocs) ==
    /\ canIssue(missingDocs, hasConfigError)
    /\ documents' = newDocs
    /\ isCompleted' = newCompletionStatus
    /\ dossierState' = newDossierState
    /\ syncs' = issueSync(syncs, missingDocs, hasConfigError)
    /\ isChanged' = changesAgainst(newDocs, newCompletionStatus, newDossierState,
                                   initialDocuments, initialCompletionStatus,
                                   initialDossierState)
    /\ timer' = effectTimer(effectRuns(newDocs, initialDocuments, loading, recordProperties),
                            missingDocs, hasConfigError)
    /\ lastOp' = Op("toggle", id, field, checked)

ToggleApply(id, field, checked, newDocs) ==
    ToggleState(id, field, checked, newDocs, checkCompletion(newDocs),
                calculateDossierState(newDocs),
                calculateMissingDocuments(newDocs, recordProperties))

ToggleTo(id, field, checked) ==
    ToggleApply(id, field, checked,
                handleCheckboxToggle(documents, id, field, checked, recordProperties,
                                     selectedTab))

Toggle(i, field) ==
    /\ i \in 1..Len(documents)
    /\ click
    /\ isRendered(documents[i])
    /\ field = "required" => ~isRequiredByCondition(documents[i])
    /\ ToggleTo(documents[i].id, field,
                IF field = "required" THEN ~documents[i].required
                ELSE ~documents[i].provided)
    /\ UNCHANGED <<initialDocuments, recordProperties, loading, saving, error,
                   initialCompletionStatus, initialDossierState, selectedTab,
                   natureDemande, hasConfigError, catalog, store, fetches, save,
                   switchTimers, events>>
    /\ UNCHANGED pureVars

\* the tabs rendered (DocumentList.tsx 1676-1699)
tabsFor(activeTabId) ==
    IF activeTabId # NoTab THEN {"autre", activeTabId}
    ELSE {TABS_CONFIG[i] : i \in 1..Len(TABS_CONFIG)}

tabsToShow == tabsFor(getActiveTabId)

SelectTab(tab) ==
    /\ click
    /\ ~loading
    /\ tab \in tabsToShow
    /\ tab # selectedTab
    /\ selectedTab' = tab
    /\ lastOp' = OpOf("selectTab")
    /\ UNCHANGED <<documents, initialDocuments, recordProperties, loading, saving, error,
                   isChanged, isCompleted, dossierState, initialCompletionStatus,
                   initialDossierState, natureDemande, hasConfigError,
                   catalog, store, fetches, syncs, save, timer, switchTimers, events>>
    /\ UNCHANGED pureVars

\* the save and cancel buttons (DocumentList.tsx 1512-1521)
buttonsRendered == ~loading /\ isChanged /\ Len(getVisibleDocuments) > 0

\* a reset that restores the documents and leaves the status as it is
ResetDocumentsOnly(runs, missingDocs) ==
    /\ documents' = initialDocuments
    /\ isChanged' = FALSE
    /\ timer' = effectTimer(runs, missingDocs, hasConfigError)
    /\ UNCHANGED <<isCompleted, dossierState>>

\* resetChanges (DocumentList.tsx 1032-1037) and the effect that follows
ResetState(runs, missingDocs) ==
    /\ documents' = initialDocuments
    /\ isCompleted' = initialCompletionStatus
    /\ dossierState' = initialDossierState
    /\ isChanged' = FALSE
    /\ timer' = effectTimer(runs, missingDocs, hasConfigError)

Reset ==
    /\ click
    /\ buttonsRendered
    /\ ResetState(effectRuns(initialDocuments, initialDocuments, loading, recordProperties),
                  calculateMissingDocuments(initialDocuments, recordProperties))
    /\ lastOp' = OpOf("reset")
    /\ UNCHANGED <<initialDocuments, recordProperties, loading, saving, error,
                   initialCompletionStatus, initialDossierState, selectedTab,
                   natureDemande, hasConfigError, catalog, store, fetches, syncs, save,
                   switchTimers, events>>
    /\ UNCHANGED pureVars

(***************************************************************************)
(* saveDocumentChanges (DocumentList.tsx 809-1027)                         *)
(***************************************************************************)
\* the tab the 100 ms timeout after the refetch switches to, from the values
\* of the closure that started the save (DocumentList.tsx 982-1009)
switchTargetFor(activeTabIdBeforeRefetch) ==
    IF /\ selectedTab = "autre"
       /\ activeTabIdBeforeRefetch # NoTab
       /\ \E i \in 1..Len(documents) :
             /\ documentBelongsToTab(configOf(documents[i]), activeTabIdBeforeRefetch)
             /\ documents[i].required /\ documents[i].provided
             /\ checkDocumentConditions(configOf(documents[i]), recordProperties, NoTab)
    THEN activeTabIdBeforeRefetch ELSE NoTab

switchTarget == switchTargetFor(getActiveTabId)

SaveStart ==
    /\ click
    /\ buttonsRendered
    /\ ~saving
    /\ saving' = TRUE
    /\ error' = ""
    /\ save' = [phase |-> "documents", docs |-> documents, completion |-> isCompleted,
                state |-> dossierState,
                missing |-> calculateMissingDocuments(documents, recordProperties),
                cfg |-> hasConfigError, switchTo |-> switchTarget]
    /\ lastOp' = OpOf("saveStart")
    /\ UNCHANGED <<documents, initialDocuments, recordProperties, loading, isChanged,
                   isCompleted, dossierState, initialCompletionStatus,
                   initialDossierState, selectedTab, natureDemande, hasConfigError,
                   catalog, store, fetches, syncs, timer, switchTimers, events>>
    /\ UNCHANGED pureVars

\* the boolean of a flag as updateDocuments writes it
flagText(b) == IF b THEN "true" ELSE "false"

\* a save that leaves the flags of the record as they are
keptFlags(flags, docs) == flags

\* documentProperties: every document's two flags (the catalogs share no field)
writtenFlags(flags, docs) ==
    [p \in DOMAIN flags |->
        IF \E i \in 1..Len(docs) : configOf(docs[i]).requiredProperty = p
        THEN flagText(docs[CHOOSE i \in 1..Len(docs) :
                              configOf(docs[i]).requiredProperty = p].required)
        ELSE IF \E i \in 1..Len(docs) : configOf(docs[i]).providedProperty = p
        THEN flagText(docs[CHOOSE i \in 1..Len(docs) :
                              configOf(docs[i]).providedProperty = p].provided)
        ELSE flags[p]]

\* the flag a response handler leaves: set on a configuration error, cleared
\* on success, each only when the handler's closure saw the opposite
flagAfter(outcome, closureFlag) ==
    IF outcome = "config" THEN (IF closureFlag THEN hasConfigError ELSE TRUE)
    ELSE IF outcome \in {"ok", "skipped"} THEN (IF closureFlag THEN FALSE ELSE hasConfigError)
    ELSE hasConfigError

\* the answer of updateDocuments
SaveDocumentsDone(outcome) ==
    /\ save.phase = "documents"
    /\ outcome \in WriteOutcomes
    /\ spend(outcome)
    /\ hasConfigError' = flagAfter(outcome, save.cfg)
    /\ IF outcome \in {"ok", "skipped"}
       THEN /\ store' = IF outcome = "ok"
                        THEN [store EXCEPT !.flags = writtenFlags(@, save.docs)]
                        ELSE store
            /\ save' = [save EXCEPT !.phase = "status"]
            /\ UNCHANGED <<saving, error>>
       ELSE /\ error' = IF outcome = "config" THEN "config" ELSE "error"
            /\ saving' = FALSE
            /\ save' = NoSave
            /\ UNCHANGED store
    /\ lastOp' = OpOf(IF outcome \in {"ok", "skipped"} THEN "saveDocuments" ELSE "saveFailed")
    /\ UNCHANGED <<clicks, documents, initialDocuments, recordProperties, loading, isChanged,
                   isCompleted, dossierState, initialCompletionStatus,
                   initialDossierState, selectedTab, natureDemande,
                   catalog, fetches, syncs, timer, switchTimers>>
    /\ UNCHANGED pureVars

\* a status answer that settles the baseline whether the write succeeded or not
SaveStatusDoneSettling(outcome) ==
    /\ save.phase = "status"
    /\ outcome \in WriteOutcomes
    /\ spend(outcome)
    /\ hasConfigError' = flagAfter(outcome, save.cfg)
    /\ store' = IF outcome = "ok"
                THEN [store EXCEPT !.documents_completed = flagText(save.completion),
                                   !.etat_du_dossier = save.state,
                                   !.missing_doc = save.missing]
                ELSE store
    /\ initialCompletionStatus' = save.completion
    /\ initialDossierState' = save.state
    /\ initialDocuments' = save.docs
    /\ isChanged' = FALSE
    /\ IF outcome \in {"ok", "skipped"}
       THEN /\ save' = [save EXCEPT !.phase = "wait"]
            /\ UNCHANGED <<saving, error>>
       ELSE /\ error' = "error"
            /\ saving' = FALSE
            /\ save' = NoSave
    /\ lastOp' = OpOf(IF outcome \in {"ok", "skipped"} THEN "saveStatus" ELSE "saveFailed")
    /\ UNCHANGED <<clicks, documents, recordProperties, loading, isCompleted, dossierState,
                   selectedTab, natureDemande,
                   catalog, fetches, syncs, timer, switchTimers>>
    /\ UNCHANGED pureVars

\* the answer of updateCompletionStatus to updateStatusProperties
\* (DocumentList.tsx 389-479, 965-973, 1013-1016)
SaveStatusDone(outcome) ==
    /\ save.phase = "status"
    /\ outcome \in WriteOutcomes
    /\ spend(outcome)
    /\ hasConfigError' = flagAfter(outcome, save.cfg)
    /\ IF outcome \in {"ok", "skipped"}
       THEN /\ store' = IF outcome = "ok"
                        THEN [store EXCEPT !.documents_completed = flagText(save.completion),
                                           !.etat_du_dossier = save.state,
                                           !.missing_doc = save.missing]
                        ELSE store
            /\ initialCompletionStatus' = save.completion
            /\ initialDossierState' = save.state
            /\ initialDocuments' = save.docs
            /\ isChanged' = FALSE
            /\ save' = [save EXCEPT !.phase = "wait"]
            /\ UNCHANGED <<saving, error>>
       ELSE /\ error' = "error"
            /\ saving' = FALSE
            /\ save' = NoSave
            /\ UNCHANGED <<store, initialCompletionStatus, initialDossierState,
                           initialDocuments, isChanged>>
    /\ lastOp' = OpOf(IF outcome \in {"ok", "skipped"} THEN "saveStatus" ELSE "saveFailed")
    /\ UNCHANGED <<clicks, documents, recordProperties, loading, isCompleted, dossierState,
                   selectedTab, natureDemande,
                   catalog, fetches, syncs, timer, switchTimers>>
    /\ UNCHANGED pureVars

scheduleSwitch == IF save.switchTo # NoTab THEN switchTimers \cup {save.switchTo}
                  ELSE switchTimers

\* one second after the status write the save refetches with its own closure;
\* under that closure's configuration-error flag the fetch returns at once
SaveRefetchStart ==
    /\ save.phase = "wait"
    /\ error' = ""
    /\ IF save.cfg
       THEN /\ loading' = FALSE
            /\ saving' = FALSE
            /\ save' = NoSave
            /\ switchTimers' = scheduleSwitch
       ELSE /\ loading' = TRUE
            /\ save' = [save EXCEPT !.phase = "refetch"]
            /\ UNCHANGED <<saving, switchTimers>>
    /\ lastOp' = OpOf("saveRefetch")
    /\ UNCHANGED <<clicks, documents, initialDocuments, recordProperties, isChanged, isCompleted,
                   dossierState, initialCompletionStatus, initialDossierState,
                   selectedTab, natureDemande, hasConfigError,
                   catalog, store, fetches, syncs, timer, events>>
    /\ UNCHANGED pureVars

\* a refetch after which the save begins again with the documents it read
SaveRefetchDoneResaving(outcome) ==
    /\ save.phase = "refetch"
    /\ outcome \in FetchOutcomes
    /\ spend(outcome)
    /\ ApplyFetch(outcome)
    /\ save' = [save EXCEPT !.phase = "documents"]
    /\ lastOp' = OpOf(IF outcome = "ok" THEN "fetchOk" ELSE "fetchFailed")
    /\ UNCHANGED <<clicks, saving, switchTimers, catalog, store, fetches>>
    /\ UNCHANGED pureVars

SaveRefetchDone(outcome) ==
    /\ save.phase = "refetch"
    /\ outcome \in FetchOutcomes
    /\ spend(outcome)
    /\ ApplyFetch(outcome)
    /\ saving' = FALSE
    /\ save' = NoSave
    /\ switchTimers' = scheduleSwitch
    /\ lastOp' = OpOf(IF outcome = "ok" THEN "fetchOk" ELSE "fetchFailed")
    /\ UNCHANGED <<clicks, catalog, store, fetches>>
    /\ UNCHANGED pureVars

SwitchTimerFire(tab) ==
    /\ tab \in switchTimers
    /\ switchTimers' = switchTimers \ {tab}
    /\ selectedTab' = tab
    /\ lastOp' = OpOf("switchTab")
    /\ UNCHANGED <<clicks, documents, initialDocuments, recordProperties, loading, saving, error,
                   isChanged, isCompleted, dossierState, initialCompletionStatus,
                   initialDossierState, natureDemande, hasConfigError,
                   catalog, store, fetches, syncs, save, timer, events>>
    /\ UNCHANGED pureVars

(***************************************************************************)
(* Partial sync of missing_doc                                             *)
(***************************************************************************)
\* the 200 ms timeout of the effect (DocumentList.tsx 1044-1051)
TimerFire ==
    /\ timer.set
    /\ canIssue(timer.missing, timer.cfg)
    /\ syncs' = issueSync(syncs, timer.missing, timer.cfg)
    /\ timer' = NoTimer
    /\ UNCHANGED <<lastOp, clicks, uiVars, catalog, store, fetches, save, switchTimers, events>>
    /\ UNCHANGED pureVars

\* the answer of updateCompletionStatus to updateMissingDocProperty
\* (DocumentList.tsx 347-383); the calling closure's flag is false
SyncDone(missing, outcome) ==
    /\ missing \in syncs
    /\ outcome \in WriteOutcomes
    /\ spend(outcome)
    /\ syncs' = syncs \ {missing}
    /\ store' = IF outcome = "ok" THEN [store EXCEPT !.missing_doc = missing] ELSE store
    /\ hasConfigError' = flagAfter(outcome, FALSE)
    /\ UNCHANGED <<lastOp, clicks, documents, initialDocuments, recordProperties, loading, saving, error,
                   isChanged, isCompleted, dossierState, initialCompletionStatus,
                   initialDossierState, selectedTab, natureDemande,
                   catalog, fetches, save, timer, switchTimers>>
    /\ UNCHANGED pureVars

(***************************************************************************)
(* Out-of-band changes of the record and of the app's secrets              *)
(***************************************************************************)
\* another user or an integration changes the category of the record, or the
\* other conditional property where the catalog has a condition on it
EditedRecords ==
    {[store EXCEPT !.sous_categorie = v] : v \in CategoryValues}
        \cup {[store EXCEPT !.domicile__ = v] : v \in DomicileValuesOf(catalog)}

\* a read of the record is in flight
reading == fetches > 0 \/ save.phase = "refetch"

\* a call of a serverless function is in flight
calling == reading \/ save.phase \in {"documents", "status"} \/ syncs # {}

\* the edit is placed while a read is in flight: no call sees an earlier edit
\* before that read does, and the writes replace the fields they name
ExternalEdit ==
    /\ events < MaxEvents
    /\ store.exists
    /\ reading
    /\ events' = events + 1
    /\ store' \in EditedRecords \ {store}
    /\ lastOp' = OpOf("edit")
    /\ UNCHANGED <<clicks, uiVars, catalog, fetches, syncs, save, timer, switchTimers>>
    /\ UNCHANGED pureVars

\* the record is deleted, or the app's access token is withdrawn or restored,
\* placed while a call is in flight
ExternalDelete ==
    /\ events < MaxEvents
    /\ store.exists
    /\ calling
    /\ events' = events + 1
    /\ store' = [store EXCEPT !.exists = FALSE]
    /\ lastOp' = OpOf("delete")
    /\ UNCHANGED <<clicks, uiVars, catalog, fetches, syncs, save, timer, switchTimers>>
    /\ UNCHANGED pureVars

SecretChange ==
    /\ events < MaxEvents
    /\ calling
    /\ events' = events + 1
    /\ store' = [store EXCEPT !.token = ~store.token]
    /\ lastOp' = OpOf("secret")
    /\ UNCHANGED <<clicks, uiVars, catalog, fetches, syncs, save, timer, switchTimers>>
    /\ UNCHANGED pureVars

Next ==
    \/ Focus
    \/ \E outcome \in Outcomes : FetchComplete(outcome)
    \/ \E i \in 1..Len(documents), field \in {"required", "provided"} : Toggle(i, field)
    \/ \E tab \in {TABS_CONFIG[i] : i \in 1..Len(TABS_CONFIG)} : SelectTab(tab)
    \/ Reset
    \/ SaveStart
    \/ \E outcome \in Outcomes : SaveDocumentsDone(outcome)
    \/ \E outcome \in Outcomes : SaveStatusDone(outcome)
    \/ SaveRefetchStart
    \/ \E outcome \in Outcomes : SaveRefetchDone(outcome)
    \/ \E tab \in switchTimers : SwitchTimerFire(tab)
    \/ TimerFire
    \/ \E missing \in syncs, outcome \in Outcomes : SyncDone(missing, outcome)
    \/ ExternalEdit
    \/ ExternalDelete
    \/ SecretChange

Spec == Init /\ [][Next]_vars
(***************************************************************************)
(* The pure functions on inputs of their own.  The component stays as      *)
(* mounted; the input is drawn by the initial state and the function is    *)
(* applied once.                                                           *)
(***************************************************************************)
Mounted ==
    /\ catalog = CatalogA
    /\ UiInit
    /\ store = NewRecord(CatalogA, <<>>, <<>>, "")
    /\ EnvInit

\* texts of at most n characters over the letter a and the space
RECURSIVE TextsOf(_)
TextsOf(n) ==
    IF n = 0 THEN {<<>>}
    ELSE TextsOf(n - 1) \cup {Append(t, c) : t \in TextsOf(n - 1), c \in {"a", " "}}

Texts == TextsOf(MaxLen)
ItemLists == UNION {[1..n -> Texts] : n \in 0..MaxItems}

\* a bag holding one multi-value field
bagOf(value) == <<[key |-> "domicile__", value |-> value]>>

\* evaluateCondition on the same items carried as a native list, as a
\* ';'-separated string and as a ','-separated string, and on a bag without
\* the field and with the empty string
InitEval ==
    /\ Mounted
    /\ CondIdle
    /\ CalcIdle
    /\ WriteIdle
    /\ ViewIdle
    /\ evalCond \in {Cond("domicile__", "in", v) : v \in Texts}
    /\ evalItems \in ItemLists
    /\ evalOut = NotEvaluated

Evaluate ==
    /\ ~evalOut.done
    /\ evalOut' = [done |-> TRUE,
                   list |-> evaluateCondition(evalCond, bagOf(ArrayValue(evalItems))),
                   semi |-> evaluateCondition(evalCond,
                                              bagOf(StringValue(join(evalItems, ";")))),
                   comma |-> evaluateCondition(evalCond,
                                               bagOf(StringValue(join(evalItems, ",")))),
                   absent |-> evaluateCondition(evalCond, <<>>),
                   empty |-> evaluateCondition(evalCond, bagOf(StringValue(<<>>)))]
    /\ UNCHANGED <<evalCond, evalItems, uiVars, envVars, condVars, calcVars, writeVars, variantVars, viewVars>>

NextEval == Evaluate

SpecEval == InitEval /\ [][NextEval]_vars

\* checkDocumentConditions on documents of up to MaxTabs tabs, each with up to
\* MaxConds conditions on two properties
CondPool ==
    {Cond(property, "equals", v) : property \in {"sous_categorie", "domicile__"},
                                   v \in {X, Y}}
CondLists == UNION {[1..n -> CondPool] : n \in 0..MaxConds}
TabConfigs ==
    UNION {{[i \in 1..n |-> TabEntry(TABS_CONFIG[i], i, conditions[i])] :
               conditions \in [1..n -> CondLists]} : n \in 0..MaxTabs}
Bags ==
    {<<>>} \cup {<<[key |-> "sous_categorie", value |-> StringValue(c)],
                   [key |-> "domicile__", value |-> StringValue(d)]>> :
                    c \in {X, Y}, d \in {X, Y}}
TabIds == {TABS_CONFIG[i] : i \in 1..Len(TABS_CONFIG)}

InitCond ==
    /\ Mounted
    /\ EvalIdle
    /\ CalcIdle
    /\ WriteIdle
    /\ ViewIdle
    /\ condDoc \in {[DocPhoto EXCEPT !.tabConfig = tabConfig] : tabConfig \in TabConfigs}
    /\ condBag \in Bags
    /\ condOut = NotEvaluated

Resolve ==
    /\ ~condOut.done
    /\ condOut' = [done |-> TRUE,
                   byTab |-> [t \in TabIds |-> checkDocumentConditions(condDoc, condBag, t)],
                   global |-> checkDocumentConditions(condDoc, condBag, NoTab)]
    /\ UNCHANGED <<condDoc, condBag, uiVars, envVars, evalVars, calcVars, writeVars, variantVars, viewVars>>

NextCond == Resolve

SpecCond == InitCond /\ [][NextCond]_vars

\* calculateDossierState on every document set of up to MaxDocs documents
DocSets ==
    UNION {[1..n -> [id : {"d"}, required : BOOLEAN, provided : BOOLEAN]] : n \in 0..MaxDocs}

InitCalc ==
    /\ Mounted
    /\ EvalIdle
    /\ CondIdle
    /\ WriteIdle
    /\ ViewIdle
    /\ calcDocs \in DocSets
    /\ calcOut = NotEvaluated

Calculate ==
    /\ ~calcOut.done
    /\ calcOut' = [done |-> TRUE, state |-> calculateDossierState(calcDocs)]
    /\ UNCHANGED <<calcDocs, uiVars, envVars, evalVars, condVars, writeVars, variantVars, viewVars>>

NextCalc == Calculate

SpecCalc == InitCalc /\ [][NextCalc]_vars

\* getTabForNatureDemande and calculateProgress on every catalog of up to
\* MaxCatalog of four documents, in every order: two documents whose view
\* entries carry the category Y, one with a further condition and one without
DocActe ==
    [id |-> "acte", name |-> <<"a">>,
     requiredProperty |-> "acte_required", providedProperty |-> "acte_provided",
     tabConfig |->
       <<TabEntry("decret", 1, <<Cond("sous_categorie", "equals", <<"Y">>),
                                  Cond("domicile__", "in", <<"B">>)>>)>>]

DocLivret ==
    [id |-> "livret", name |-> <<"l">>,
     requiredProperty |-> "livret_required", providedProperty |-> "livret_provided",
     tabConfig |->
       <<TabEntry("naturalisation_mariage", 1, <<Cond("sous_categorie", "equals", <<"Y">>)>>)>>]

ViewDocs == {DocPassport, DocPhoto, DocActe, DocLivret}
ViewCatalogs ==
    {cat \in UNION {[1..n -> ViewDocs] : n \in 1..MaxCatalog} :
        \A i, j \in 1..Len(cat) : cat[i] = cat[j] => i = j}

\* the bag that holds the category alone
categoryBag(value) ==
    IF value = <<>> THEN <<>> ELSE <<[key |-> "sous_categorie", value |-> StringValue(value)]>>

InitView ==
    /\ catalog \in ViewCatalogs
    /\ UiInit
    /\ store = NewRecord(catalog, <<>>, <<>>, "")
    /\ EnvInit
    /\ EvalIdle
    /\ CondIdle
    /\ CalcIdle
    /\ WriteIdle
    /\ routeValue \in CategoryValues
    /\ routeOut = NotEvaluated
    /\ progressDocs \in [1..Len(catalog) -> [required : BOOLEAN, provided : BOOLEAN]]
    /\ progressOut = NotEvaluated

\* the documents of the catalog with the flags drawn
withFlags(flags) ==
    [i \in 1..Len(flags) |->
        [id |-> catalog[i].id, required |-> flags[i].required, provided |-> flags[i].provided]]

Route ==
    /\ ~routeOut.done
    /\ routeOut' = [done |-> TRUE, tab |-> getTabForNatureDemande(routeValue)]
    /\ UNCHANGED <<routeValue, progressDocs, progressOut, uiVars, envVars, evalVars,
                   condVars, calcVars, writeVars, variantVars>>

Progress ==
    /\ ~progressOut.done
    /\ progressOut' = [done |-> TRUE,
                       progress |-> calculateProgress(withFlags(progressDocs),
                                                      categoryBag(routeValue)),
                       bar |-> progressBarRendered(
                                   calculateProgress(withFlags(progressDocs),
                                                     categoryBag(routeValue)))]
    /\ UNCHANGED <<routeValue, routeOut, progressDocs, uiVars, envVars, evalVars,
                   condVars, calcVars, writeVars, variantVars>>

NextView == Route \/ Progress

SpecView == InitView /\ [][NextView]_vars

(***************************************************************************)
(* The write functions on every batch of up to MaxFields document fields   *)
(* and on both parameter sets of updateCompletionStatus, against every     *)
(* schema over those fields                                                *)
(***************************************************************************)
DocumentFunctions == {"updateDocuments.nested", "updateDocuments.loop"}
StatusFunctions == Functions \ DocumentFunctions

\* the documents parameter: each field of some of the documents, as a boolean
DocumentParameters ==
    UNION {[fields -> BOOLEAN] : fields \in SUBSET DocumentFields}

\* completionStatus, dossierState and missingDoc of a full save; missingDoc
\* alone of a partial sync
StatusParameters ==
    {[f \in StatusFields |-> TRUE], [f \in {PROPS.MISSING} |-> TRUE]}

Records(fields) ==
    {[exists |-> e, token |-> t, schema |-> s, values |-> [f \in s |-> ""]] :
        e \in BOOLEAN, t \in BOOLEAN, s \in SUBSET fields}

InitWrite ==
    /\ Mounted
    /\ EvalIdle
    /\ CondIdle
    /\ CalcIdle
    /\ ViewIdle
    /\ \/ /\ call \in {NewCall(fn, p) : fn \in DocumentFunctions, p \in DocumentParameters}
          /\ crm \in Records(DocumentFields)
       \/ /\ call \in {NewCall(fn, p) : fn \in StatusFunctions, p \in StatusParameters}
          /\ crm \in Records(StatusFields)

awaiting == call.pc \notin {"start", "done"}

\* exports.main up to its first await
startOf(c, token) ==
    IF c.fn = "updateDocuments.nested" THEN nestedStart(c, token)
    ELSE IF c.fn = "updateDocuments.loop" THEN loopStart(c, token)
    ELSE IF c.fn = "updateCompletionStatus.fallback" THEN statusStart(c, token, "first")
    ELSE statusStart(c, token, "first")

\* exports.main from one await to the next, or to its return
stepOf(c, answer, name) ==
    IF c.fn = "updateDocuments.nested" THEN nestedStep(c, answer)
    ELSE IF c.fn = "updateDocuments.loop" THEN loopStep(c, answer)
    ELSE IF c.fn = "updateCompletionStatus.fallback" THEN fallbackStep(c, answer, name)
    ELSE partialStep(c, answer, name)

Invoke ==
    /\ call.pc = "start"
    /\ call' = startOf(call, crm.token)
    /\ UNCHANGED <<crm, uiVars, envVars, evalVars, condVars, calcVars, variantVars, viewVars>>

Answer ==
    /\ awaiting
    /\ \E answer \in ApiAnswers(crm, call.properties) :
          /\ crm' = written(crm, call.properties, answer)
          /\ \E name \in IF call.fn \in StatusFunctions THEN propertyErrorsOf(answer) ELSE {""} :
                call' = stepOf([call EXCEPT !.answers = Append(@, answer)], answer, name)
    /\ UNCHANGED <<uiVars, envVars, evalVars, condVars, calcVars, variantVars, viewVars>>

\* the record is deleted while the function awaits an answer
Vanish ==
    /\ awaiting
    /\ crm.exists
    /\ crm' = [crm EXCEPT !.exists = FALSE]
    /\ UNCHANGED <<call, uiVars, envVars, evalVars, condVars, calcVars, variantVars, viewVars>>

NextWrite == Invoke \/ Answer \/ Vanish

SpecWrite == InitWrite /\ [][NextWrite]_vars

(***************************************************************************)
(* The earlier variant of the component (DocumentList.tsx 1761-3218): its  *)
(* fetchDocumentValues starts a full save of its own when the store's      *)
(* required flag of a document differs from the one its conditions give.   *)
(* The conditions of a document are those of all its tabs.                 *)
(***************************************************************************)
\* the required flag the variant resolves (DocumentList.tsx 2224-2233, 2240-2242)
shouldBeRequired(hasConditions, conditionsMet, requiredFromHubSpot) ==
    IF hasConditions THEN (IF conditionsMet THEN TRUE ELSE requiredFromHubSpot)
    ELSE requiredFromHubSpot

requiredFromHubSpotOf(st, config) == toBool(readFlag(st.flags[config.requiredProperty]))

\* updatedDocuments of the variant's fetchDocumentValues
variantDocuments(st, properties) ==
    [i \in 1..Len(catalog) |->
        [id |-> catalog[i].id,
         required |-> shouldBeRequired(hasConditionsOf(catalog[i]),
                                       checkDocumentConditions(catalog[i], properties, NoTab),
                                       requiredFromHubSpotOf(st, catalog[i])),
         provided |-> toBool(readFlag(st.flags[catalog[i].providedProperty]))]]

\* needsSave && docsNeedingUpdate.length > 0 (DocumentList.tsx 2261-2278)
needsSave(st, properties) ==
    \E i \in 1..Len(catalog) :
        /\ hasConditionsOf(catalog[i])
        /\ checkDocumentConditions(catalog[i], properties, NoTab)
        /\ requiredFromHubSpotOf(st, catalog[i])
              # shouldBeRequired(TRUE, TRUE, requiredFromHubSpotOf(st, catalog[i]))

\* saveDocumentChanges(correctedDocs, true) called from the fetch: the status
\* it writes is the one of the render that created the fetch, the first one
AutoSave(docs, properties) ==
    [docs |-> docs, completion |-> FALSE, state |-> DOSSIER_STATES.TO_BUILD,
     missing |-> calculateMissingDocuments(docs, properties), phase |-> "documents"]

\* the automatic save starts whatever the saving flag says
startAutoSave(docs, properties) ==
    /\ Len(autoSaves) < MaxAutoSaves
    /\ autoSaves' = Append(autoSaves, AutoSave(docs, properties))
    /\ saving' = TRUE

VariantFetchOk(properties, docs) ==
    /\ FetchOkWith(properties, docs)
    /\ IF needsSave(store, properties) THEN startAutoSave(docs, properties)
       ELSE UNCHANGED <<autoSaves, saving>>

VariantFetchFailed ==
    /\ loading' = FALSE
    /\ error' = "error"
    /\ UNCHANGED <<documents, initialDocuments, recordProperties, saving, isChanged,
                   isCompleted, dossierState, initialCompletionStatus, initialDossierState,
                   selectedTab, natureDemande, hasConfigError, syncs, timer, autoSaves>>

VariantFetchComplete(outcome) ==
    /\ fetches > 0
    /\ outcome \in FetchOutcomes
    /\ spend(outcome)
    /\ fetches' = fetches - 1
    /\ IF outcome = "ok"
       THEN VariantFetchOk(fetchedProperties(store),
                           variantDocuments(store, fetchedProperties(store)))
       ELSE VariantFetchFailed
    /\ lastOp' = OpOf(IF outcome = "ok" THEN "fetchOk" ELSE "fetchFailed")
    /\ UNCHANGED <<clicks, catalog, store, save, switchTimers>>
    /\ UNCHANGED <<evalVars, condVars, calcVars, writeVars, viewVars>>

removeAt(s, k) == [j \in 1..(Len(s) - 1) |-> IF j < k THEN s[j] ELSE s[j + 1]]

\* the answer of updateDocuments to the k-th automatic save
\* (DocumentList.tsx 2405-2420, 2439-2444)
AutoSaveDocumentsDone(k, outcome) ==
    /\ k \in 1..Len(autoSaves)
    /\ autoSaves[k].phase = "documents"
    /\ outcome \in WriteOutcomes
    /\ spend(outcome)
    /\ IF outcome \in {"ok", "skipped"}
       THEN /\ store' = IF outcome = "ok"
                        THEN [store EXCEPT !.flags = writtenFlags(@, autoSaves[k].docs)]
                        ELSE store
            /\ autoSaves' = [autoSaves EXCEPT ![k].phase = "status"]
            /\ UNCHANGED <<saving, error>>
       ELSE /\ error' = "error"
            /\ saving' = FALSE
            /\ autoSaves' = removeAt(autoSaves, k)
            /\ UNCHANGED store
    /\ lastOp' = OpOf(IF outcome \in {"ok", "skipped"} THEN "saveDocuments" ELSE "saveFailed")
    /\ UNCHANGED <<clicks, documents, initialDocuments, recordProperties, loading, isChanged,
                   isCompleted, dossierState, initialCompletionStatus, initialDossierState,
                   selectedTab, natureDemande, hasConfigError,
                   catalog, fetches, syncs, save, timer, switchTimers>>
    /\ UNCHANGED <<evalVars, condVars, calcVars, writeVars, viewVars>>

\* the answer of updateCompletionStatus to the k-th automatic save, which
\* skips the refetch (DocumentList.tsx 2422-2444)
AutoSaveStatusDone(k, outcome) ==
    /\ k \in 1..Len(autoSaves)
    /\ autoSaves[k].phase = "status"
    /\ outcome \in WriteOutcomes
    /\ spend(outcome)
    /\ IF outcome \in {"ok", "skipped"}
       THEN /\ store' = IF outcome = "ok"
                        THEN [store EXCEPT
                                 !.documents_completed = flagText(autoSaves[k].completion),
                                 !.etat_du_dossier = autoSaves[k].state,
                                 !.missing_doc = autoSaves[k].missing]
                        ELSE store
            /\ initialCompletionStatus' = autoSaves[k].completion
            /\ initialDossierState' = autoSaves[k].state
            /\ initialDocuments' = autoSaves[k].docs
            /\ isChanged' = FALSE
            /\ UNCHANGED error
       ELSE /\ error' = "error"
            /\ UNCHANGED <<store, initialCompletionStatus, initialDossierState,
                           initialDocuments, isChanged>>
    /\ saving' = FALSE
    /\ autoSaves' = removeAt(autoSaves, k)
    /\ lastOp' = OpOf(IF outcome \in {"ok", "skipped"} THEN "saveStatus" ELSE "saveFailed")
    /\ UNCHANGED <<clicks, documents, recordProperties, loading, isCompleted, dossierState,
                   selectedTab, natureDemande, hasConfigError,
                   catalog, fetches, syncs, save, timer, switchTimers>>
    /\ UNCHANGED <<evalVars, condVars, calcVars, writeVars, viewVars>>

NextAuto ==
    \/ Focus
    \/ \E outcome \in Outcomes : VariantFetchComplete(outcome)
    \/ \E k \in 1..Len(autoSaves), outcome \in Outcomes : AutoSaveDocumentsDone(k, outcome)
    \/ \E k \in 1..Len(autoSaves), outcome \in Outcomes : AutoSaveStatusDone(k, outcome)
    \/ TimerFire
    \/ \E missing \in syncs, outcome \in Outcomes : SyncDone(missing, outcome)

SpecAuto == Init /\ [][NextAuto]_vars

(***************************************************************************)
(* The component mounted while the app's access token is missing, with the *)
(* timeout and the fetch of a successful save taken when they are due      *)
(***************************************************************************)
InitSecretMissing ==
    /\ catalog = CatalogC
    /\ UiInit
    /\ \E category \in CategoryValues, domicile \in DomicileValuesOf(catalog),
          raw \in InitialFlags :
          store = [NewRecord(catalog, category, domicile, raw) EXCEPT !.token = FALSE]
    /\ EnvInit
    /\ EvalIdle
    /\ CondIdle
    /\ CalcIdle
    /\ WriteIdle
    /\ ViewIdle

\* the 1 s timeout of the save fires and the serverless call of its fetch
\* answers
SpecLive ==
    /\ InitSecretMissing
    /\ [][Next]_vars
    /\ WF_vars(SaveRefetchStart)
    /\ WF_vars(\E outcome \in Outcomes : SaveRefetchDone(outcome))

(***************************************************************************)
(* getDocumentValues batch by batch (getDocumentValues.js 69-111): the     *)
(* fields asked for are read in batches of BATCH_SIZE; a batch that the    *)
(* API rejects with anything but a 404 leaves its fields null, and the     *)
(* function answers with the fields it has                                 *)
(***************************************************************************)
BATCH_SIZE == 100

\* sorted: sous_categorie, the conditional property, every document's two
\* flags, the completion flag and the dossier state
sortedProperties(cat) ==
    <<"sous_categorie", "domicile__">>
        \o [k \in 1..(2 * Len(cat)) |->
               IF k % 2 = 1 THEN cat[(k + 1) \div 2].requiredProperty
               ELSE cat[k \div 2].providedProperty]
        \o <<PROPS.COMPLETION, PROPS.DOSSIER>>

batchCount(names) == (Len(names) + BATCH_SIZE - 1) \div BATCH_SIZE

\* the batch sorted.slice(i, i + BATCH_SIZE) that holds a field
batchOf(names, prop) ==
    ((CHOOSE k \in 1..Len(names) : names[k] = prop) - 1) \div BATCH_SIZE + 1

\* one answer of the API to each batch: both getById calls failed, or not
BatchAnswers(names) == [1..batchCount(names) -> {"answered", "rejected"}]

isRead(answers, names, prop) == answers[batchOf(names, prop)] = "answered"

\* the record as the result of getDocumentValues shows it: the fields of a
\* rejected batch are null, which reads '' (and 'false' for a flag)
recordRead(st, answers) ==
    LET names == sortedProperties(catalog)
    IN [st EXCEPT
           !.sous_categorie = IF isRead(answers, names, "sous_categorie") THEN @ ELSE <<>>,
           !.domicile__ = IF isRead(answers, names, "domicile__") THEN @ ELSE <<>>,
           !.flags = [p \in DOMAIN @ |-> IF isRead(answers, names, p) THEN @[p] ELSE ""],
           !.documents_completed = IF isRead(answers, names, PROPS.COMPLETION) THEN @ ELSE "",
           !.etat_du_dossier = IF isRead(answers, names, PROPS.DOSSIER) THEN @ ELSE ""]

\* the continuation of fetchDocumentValues on the result of the function
ReadFetchOk(rec) ==
    FetchOkResolved(fetchedProperties(rec), trim(rec.sous_categorie),
                    fetchedDocuments(rec, fetchedProperties(rec)),
                    toBool(rec.documents_completed),
                    IF rec.etat_du_dossier = "" THEN DOSSIER_STATES.TO_BUILD
                    ELSE rec.etat_du_dossier,
                    checkCompletion(fetchedDocuments(rec, fetchedProperties(rec))),
                    calculateDossierState(fetchedDocuments(rec, fetchedProperties(rec))))

allAnswered(answers) == \A b \in DOMAIN answers : answers[b] = "answered"

\* a rejected batch spends the one environment event
ReadComplete(outcome, answers) ==
    /\ fetches > 0
    /\ outcome \in FetchOutcomes
    /\ answers \in BatchAnswers(sortedProperties(catalog))
    /\ outcome # "ok" => allAnswered(answers)
    /\ IF allAnswered(answers) THEN spend(outcome)
       ELSE events < MaxEvents /\ events' = events + 1
    /\ fetches' = fetches - 1
    /\ IF outcome = "ok" THEN ReadFetchOk(recordRead(store, answers))
       ELSE ApplyFetchFailed(outcome)
    /\ lastOp' = OpOf(IF outcome # "ok" THEN "fetchFailed"
                      ELSE IF allAnswered(answers) THEN "fetchOk" ELSE "fetchPartial")
    /\ UNCHANGED <<clicks, saving, catalog, store, save, switchTimers>>
    /\ UNCHANGED pureVars

NextRead ==
    \/ Focus
    \/ \E outcome \in Outcomes, answers \in BatchAnswers(sortedProperties(catalog)) :
          ReadComplete(outcome, answers)
    \/ \E i \in 1..Len(documents), field \in {"required", "provided"} : Toggle(i, field)
    \/ TimerFire
    \/ \E missing \in syncs, outcome \in Outcomes : SyncDone(missing, outcome)

SpecRead == Init /\ [][NextRead]_vars

(***************************************************************************)
(* Properties                                                              *)
(***************************************************************************)
\* C1: for every document set, calculateDossierState returns TO_BUILD when no
\* document is required; otherwise, when at least one document (required or
\* not) is provided, COMPLETE if every required document is provided and
\* INCOMPLETE if some required document is not; otherwise (some required, none
\* provided) TO_BUILD.
C1_DossierStateContract ==
    calcOut.done =>
        LET required == {i \in 1..Len(calcDocs) : calcDocs[i].required}
            provided == {i \in 1..Len(calcDocs) : calcDocs[i].provided}
        IN calcOut.state =
               IF required = {} THEN DOSSIER_STATES.TO_BUILD
               ELSE IF provided # {}
                    THEN IF required \subseteq provided THEN DOSSIER_STATES.COMPLETE ELSE DOSSIER_STATES.INCOMPLETE
                    ELSE DOSSIER_STATES.TO_BUILD

\* the calculator has answered INCOMPLETE for a set in which a document that is
\* not required is the only one provided
C1_IncompleteReached ==
    /\ calcOut.done
    /\ calcOut.state = DOSSIER_STATES.INCOMPLETE
    /\ \E i \in 1..Len(calcDocs) : calcDocs[i].required /\ ~calcDocs[i].provided
    /\ \A i \in 1..Len(calcDocs) : calcDocs[i].provided => ~calcDocs[i].required

\* the specification speaks of a document that has conditions in some view
hasConditionsInSomeView(config) ==
    \E t \in 1..Len(config.tabConfig) : config.tabConfig[t].conditions # <<>>

\* Scenario A: the one-document catalog, a successful fetch has just answered
\* with category X and D1 not provided
ScenarioA ==
    /\ catalog = CatalogA
    /\ lastOp.op = "fetchOk"
    /\ hasKey(recordProperties, "sous_categorie")
    /\ getValue(recordProperties, "sous_categorie") = StringValue(X)
    /\ ~documents[1].provided

\* C2 (as amended): in Scenario A, after a successful fetch D1 is required, D1
\* is visible in the active view, and the dossier state is TO_BUILD (a required
\* document and nothing provided).
C2_ScenarioA_ToBuild ==
    ScenarioA =>
        /\ documents[1].required
        /\ getActiveTabId # NoTab
        /\ containsId(visibleDocuments(documents, recordProperties, natureDemande,
                                       getActiveTabId), documents[1].id)
        /\ dossierState = DOSSIER_STATES.TO_BUILD

\* C2 as stated: in Scenario A the dossier state is INCOMPLETE
C2_ScenarioA_Incomplete ==
    ScenarioA =>
        /\ documents[1].required
        /\ getActiveTabId # NoTab
        /\ containsId(visibleDocuments(documents, recordProperties, natureDemande,
                                       getActiveTabId), documents[1].id)
        /\ dossierState = DOSSIER_STATES.INCOMPLETE

\* Scenario A has happened: the fetch has answered and the active view is shown
C2_ScenarioAReached ==
    /\ ScenarioA
    /\ documents[1].required
    /\ selectedTab = getActiveTabId
    /\ ~loading

\* C3: in every reachable state the held dossier state equals
\* calculateDossierState of the current documents; in particular it is TO_BUILD
\* whenever no document is required, whatever the provided flags are.
C3_DossierStateIsCalculated ==
    /\ dossierState = calculateDossierState(documents)
    /\ (\A i \in 1..Len(documents) : ~documents[i].required) => dossierState = DOSSIER_STATES.TO_BUILD

\* a reset has brought back a status other than TO_BUILD
C3_ResetRestoredStatus ==
    /\ lastOp.op = "reset"
    /\ dossierState # DOSSIER_STATES.TO_BUILD
    /\ \E i \in 1..Len(documents) : documents[i].required

\* C4: after a successful fetch each document's required status is a function
\* of (hasConditions, conditionsMet, provided, manualRequired of the store):
\* without conditions it is manualRequired; with conditions met it is true; with
\* conditions unmet it is manualRequired if the document is provided, else false.
C4_RequiredAfterFetch ==
    lastOp.op = "fetchOk" =>
        \A i \in 1..Len(catalog) :
            LET manualRequired == store.flags[catalog[i].requiredProperty] = "true"
                provided == store.flags[catalog[i].providedProperty] = "true"
                conditionsMet == checkDocumentConditions(catalog[i], recordProperties, NoTab)
            IN /\ documents[i].provided = provided
               /\ documents[i].required =
                      IF ~hasConditionsInSomeView(catalog[i]) THEN manualRequired
                      ELSE IF conditionsMet THEN TRUE
                      ELSE IF provided THEN manualRequired
                      ELSE FALSE

\* a fetch has answered for a provided document whose conditions are unmet and
\* whose stored flag keeps it required, and for one without the stored flag
C4_ManualFlagKept ==
    /\ lastOp.op = "fetchOk"
    /\ \E i \in 1..Len(catalog) :
          /\ hasConditionsInSomeView(catalog[i])
          /\ ~checkDocumentConditions(catalog[i], recordProperties, NoTab)
          /\ documents[i].provided
          /\ documents[i].required
          /\ store.flags[catalog[i].requiredProperty] = "true"

conditionsOfViews(doc, tabs) ==
    UNION {{doc.tabConfig[t].conditions[c] : c \in 1..Len(doc.tabConfig[t].conditions)} :
              t \in {u \in 1..Len(doc.tabConfig) : doc.tabConfig[u].tabId \in tabs}}

\* AND across the property names of the conditions, OR within one name
groupsHold(conditions, properties) ==
    \A name \in {condition.property : condition \in conditions} :
        \E condition \in conditions :
            condition.property = name /\ evaluateCondition(condition, properties)

\* C6: conditions-met for a view is true iff, with the view's conditions
\* partitioned by property name, every partition holds a condition the
\* evaluator accepts; a document with no condition for the view yields true.
C6_PerViewConditions ==
    condOut.done =>
        \A t \in TabIds :
            /\ condOut.byTab[t] = groupsHold(conditionsOfViews(condDoc, {t}), condBag)
            /\ conditionsOfViews(condDoc, {t}) = {} => condOut.byTab[t]

\* a view with two conditions on one property, one of them accepted and the
\* other rejected, has been resolved as met
C6_AlternativeAccepted ==
    /\ condOut.done
    /\ \E t \in TabIds :
          /\ condOut.byTab[t]
          /\ \E c, d \in conditionsOfViews(condDoc, {t}) :
                /\ c.property = d.property
                /\ evaluateCondition(c, condBag)
                /\ ~evaluateCondition(d, condBag)

itemSet(parts) == {normalizeForComparison(parts[i]) : i \in 1..Len(parts)}

\* C8: for operator in, the evaluator answers the same whether the bag value
\* carries the items as a ';'-separated string, as a ','-separated string or as
\* a native list, the three having equal item sets after trimming and
\* collapsing whitespace.  Stated for items and a condition value that are not
\* blank, where the three readings of the field are not in doubt.
C8_RepresentationInvariance ==
    (/\ evalOut.done
     /\ trim(evalCond.value) # <<>>
     /\ \A i \in 1..Len(evalItems) : trim(evalItems[i]) # <<>>
     /\ itemSet(split(join(evalItems, ";"), ";")) = itemSet(evalItems)
     /\ itemSet(split(join(evalItems, ","), ",")) = itemSet(evalItems))
    => /\ evalOut.list = evalOut.semi
       /\ evalOut.list = evalOut.comma

\* the words of a text: its maximal runs of characters other than the space
RECURSIVE wordsOf(_)
wordsOf(text) ==
    IF text = <<>> THEN <<>>
    ELSE IF Head(text) = " " THEN wordsOf(Tail(text))
    ELSE LET n == CHOOSE k \in 1..Len(text) :
                      /\ \A j \in 1..k : text[j] # " "
                      /\ (k = Len(text) \/ text[k + 1] = " ")
         IN <<SubSeq(text, 1, n)>> \o wordsOf(SubSeq(text, n + 1, Len(text)))

\* Scenario D: bag "A;B", value "B" matches and value "C" does not
ScenarioD ==
    /\ evaluateCondition(Cond("domicile__", "in", <<"B">>), bagOf(StringValue(AB)))
    /\ ~evaluateCondition(Cond("domicile__", "in", <<"C">>), bagOf(StringValue(AB)))

\* C9: for operator in, an absent or empty bag value evaluates to false, and a
\* ';'-separated bag value matches exactly when the condition value equals one
\* of its items, items and value compared trimmed and with whitespace collapsed
\* (bag "A;B": value "B" matches, value "C" does not).
C9_InMembership ==
    /\ ScenarioD
    /\ evalOut.done =>
          /\ ~evalOut.absent
          /\ ~evalOut.empty
          /\ Len(evalItems) >= 2 =>
                evalOut.semi = \E i \in 1..Len(evalItems) :
                                   /\ wordsOf(evalItems[i]) # <<>>
                                   /\ wordsOf(evalItems[i]) = wordsOf(evalCond.value)

\* a ';'-separated value has matched on its second item alone
C9_SecondItemMatched ==
    /\ evalOut.done
    /\ Len(evalItems) = 2
    /\ evalOut.semi
    /\ wordsOf(evalItems[2]) = wordsOf(evalCond.value)
    /\ wordsOf(evalItems[1]) # wordsOf(evalCond.value)
    /\ wordsOf(evalItems[1]) # <<>>

\* C10: with the overflow view selected and no search text, a document is
\* visible iff (a) it is required or provided and it does not both belong to the
\* active view and have its conditions met there, or (b) it belongs to the
\* active view and its conditions there are unmet.
C10_OverflowVisibility ==
    \A i \in 1..Len(documents) :
        LET belongs == /\ getActiveTabId # NoTab
                       /\ \E t \in 1..Len(configOf(documents[i]).tabConfig) :
                             configOf(documents[i]).tabConfig[t].tabId = getActiveTabId
            metThere == checkDocumentConditions(
                            configOf(documents[i]),
                            propsForConditionsOf(recordProperties, natureDemande),
                            getActiveTabId)
            flagged == documents[i].required \/ documents[i].provided
        IN containsId(visibleDocuments(documents, recordProperties, natureDemande, "autre"),
                      documents[i].id)
           <=> \/ flagged /\ ~(belongs /\ metThere)
               \/ belongs /\ ~metThere

\* the overflow view is selected and shows a document of the active view that
\* is neither required nor provided, its conditions there being unmet
C10_UnmetShownInOverflow ==
    /\ selectedTab = "autre"
    /\ ~loading
    /\ getActiveTabId # NoTab
    /\ \E i \in 1..Len(documents) :
          /\ ~documents[i].required
          /\ ~documents[i].provided
          /\ containsId(getVisibleDocuments, documents[i].id)

\* the active view is the selected one and shows document i
shownInActiveView(i) ==
    /\ getActiveTabId # NoTab
    /\ selectedTab = getActiveTabId
    /\ containsId(getVisibleDocuments, documents[i].id)

\* the conditions document i holds for the active view are met
metInActiveView(i) ==
    checkDocumentConditions(configOf(documents[i]),
                            propsForConditionsOf(recordProperties, natureDemande),
                            getActiveTabId)

\* C11 (as amended): with the active view selected and no search text, a
\* document is visible iff it belongs to that view and (its conditions for that
\* view are met or it is both required and provided); hence a document of the
\* active view stays visible there, its condition no longer matching, in every
\* state in which it is still both required and provided.
C11_ActiveViewVisibility ==
    (getActiveTabId # NoTab /\ selectedTab = getActiveTabId) =>
        \A i \in 1..Len(documents) :
            /\ shownInActiveView(i)
                  <=> /\ documentBelongsToTab(configOf(documents[i]), getActiveTabId)
                      /\ \/ metInActiveView(i)
                         \/ documents[i].required /\ documents[i].provided
            /\ (/\ documentBelongsToTab(configOf(documents[i]), getActiveTabId)
                /\ documents[i].required /\ documents[i].provided)
               => shownInActiveView(i)

\* C11 as stated: a document shown in the active view, required and provided,
\* is still shown there after every step that leaves the same view active and
\* selected with the document's condition unmet, unless the step is the user's
\* toggle of that document or the user's reset.
C11_StaysUntilManuallyCleared ==
    [][\A i \in 1..Len(documents) :
          (/\ shownInActiveView(i)
           /\ documents[i].required /\ documents[i].provided
           /\ activeTabIdOf(natureDemande') = getActiveTabId
           /\ selectedTab' = selectedTab
           /\ ~checkDocumentConditions(configOf(documents[i]),
                                       propsForConditionsOf(recordProperties', natureDemande'),
                                       getActiveTabId)
           /\ ~(lastOp'.op \in {"toggle", "reset"} /\ documents' # documents))
          => containsId(visibleDocuments(documents', recordProperties', natureDemande',
                                         selectedTab),
                        documents[i].id)]_vars

\* a document of the selected active view is shown there with its condition
\* unmet, being required and provided, after a fetch that followed an edit
C11_KeptAfterConditionLapsed ==
    /\ lastOp.op = "fetchOk"
    /\ events > 0
    /\ \E i \in 1..Len(documents) :
          /\ shownInActiveView(i)
          /\ ~metInActiveView(i)
          /\ documents[i].required /\ documents[i].provided

\* document i is conditioned on category = "X" alone
conditionedOnCategoryX(i) ==
    getAllConditions(catalog[i]) = <<Cond("sous_categorie", "equals", X)>>

\* Scenario C for document i: a successful fetch has just answered with
\* category Y while the store holds D1 required and provided
ScenarioC(i) ==
    /\ lastOp.op = "fetchOk"
    /\ conditionedOnCategoryX(i)
    /\ store.flags[catalog[i].requiredProperty] = "true"
    /\ store.flags[catalog[i].providedProperty] = "true"
    /\ hasKey(recordProperties, "sous_categorie")
    /\ getValue(recordProperties, "sous_categorie") = StringValue(Y)

\* C12: Scenario C: D1 conditioned on category = "X", the store holding D1
\* required and provided; after a successful fetch in which the category is "Y"
\* D1 is still required and provided locally and is visible in the overflow view.
C12_ScenarioC_KeptInOverflow ==
    \A i \in 1..Len(catalog) :
        ScenarioC(i) =>
            /\ documents[i].required
            /\ documents[i].provided
            /\ containsId(visibleDocuments(documents, recordProperties, natureDemande, "autre"),
                          documents[i].id)

\* Scenario C has happened after the category was X, and the user looks at the
\* overflow view, which shows D1
C12_ScenarioCReached ==
    /\ selectedTab = "autre"
    /\ ~loading
    /\ events > 0
    /\ \E i \in 1..Len(catalog) :
          /\ ScenarioC(i)
          /\ containsId(getVisibleDocuments, documents[i].id)

\* the document set without its element i
withoutDocument(docs, i) == SubSeq(docs, 1, i - 1) \o SubSeq(docs, i + 1, Len(docs))

\* C13: in every reachable state a document whose tabConfig has no entries is
\* visible in no view (active or overflow), and its required and provided flags
\* have no influence on the dossier state or the completion flag.
C13_NoViewNoInfluence ==
    \A i \in 1..Len(documents) :
        configOf(documents[i]).tabConfig = <<>> =>
            /\ \A t \in 1..Len(TABS_CONFIG) :
                  ~containsId(visibleDocuments(documents, recordProperties, natureDemande,
                                               TABS_CONFIG[t]),
                              documents[i].id)
            /\ dossierState = calculateDossierState(withoutDocument(documents, i))
            /\ isCompleted = checkCompletion(withoutDocument(documents, i))

\* C14: in every reachable state the list of document ids of the local
\* document set equals the catalog's list of ids.
C14_DocumentIdsAreCatalogIds ==
    /\ Len(documents) = Len(catalog)
    /\ \A i \in 1..Len(catalog) : documents[i].id = catalog[i].id

\* the aggregate fields of the store are those the save computed
holdsAggregatesOf(record, s) ==
    /\ record.documents_completed = flagText(s.completion)
    /\ record.etat_du_dossier = s.state
    /\ record.missing_doc = s.missing

\* C15: a full save is one batched write: when the save's write of the
\* aggregate fields has been answered, whatever the answer, a store that
\* holds the save's document flags holds the save's completion flag, dossier
\* state and missing-documents summary too.
C15_OneBatchedWrite ==
    [][(/\ save.phase = "status" /\ save'.phase # "status"
        /\ store.exists
        /\ store'.flags = writtenFlags(store'.flags, save.docs))
       => holdsAggregatesOf(store', save)]_vars

\* the call is a document write of a full save
documentWrite == call.fn \in DocumentFunctions

\* the i-th batch sent is the one before it less the fields its rejection named
eliminated(i) ==
    /\ call.answers[i - 1].code = 400
    /\ call.answers[i - 1].names # {}
    /\ call.sent[i] = without(call.sent[i - 1], call.answers[i - 1].names)

\* C16: in the document write of a full save every retried batch is the
\* previous batch less exactly the fields the store named as non-existent,
\* every retry follows a rejection that names such a field, and the write is
\* attempted at most three times.
C16_RetryByElimination ==
    documentWrite =>
        /\ Len(call.sent) <= 3
        /\ \A i \in 2..Len(call.sent) : eliminated(i)

\* Scenario E: the batch holds foo_required and other fields, the store
\* rejects exactly foo_required as non-existent and accepts what it is sent
\* afterwards
ScenarioE ==
    /\ documentWrite
    /\ call.pc = "done"
    /\ Len(call.answers) >= 2
    /\ "foo_required" \in DOMAIN call.sent[1]
    /\ call.answers[1].code = 400
    /\ call.answers[1].names = {"foo_required"}
    /\ \A i \in 2..Len(call.answers) : call.answers[i].code = 200

\* C17: in Scenario E the retried batch is the original batch without
\* foo_required, every other field of the batch is written in the store, and
\* the result is partial_success with foo_required listed as failed.
C17_ScenarioE_PartialSuccess ==
    ScenarioE =>
        /\ Len(call.sent) = 2
        /\ call.sent[2] = without(call.sent[1], {"foo_required"})
        /\ \A f \in DOMAIN call.sent[2] : crm.values[f] = call.sent[1][f]
        /\ call.result.status = "partial_success"
        /\ call.result.failed = {"foo_required"}

\* the store has rejected fields of every batch of the document write, and
\* the write has stopped with fields left to send
budgetExhausted ==
    /\ documentWrite
    /\ call.pc = "done"
    /\ call.sent # <<>>
    /\ Len(call.answers) = Len(call.sent)
    /\ \A i \in 1..Len(call.answers) :
          call.answers[i].code = 400 /\ call.answers[i].names # {}
    /\ DOMAIN call.properties # {}

\* a field of the call is in the store
someFieldWritten == \E f \in DOMAIN crm.values : crm.values[f] # ""

\* C18: when the store rejects fields until the retry budget is exhausted
\* the result is a partial success naming the fields that were not written;
\* and no write function reports status error once a field of its call has
\* been written.
C18_PartialSuccessOnExhaustion ==
    /\ budgetExhausted =>
          /\ call.result.status = "partial_success"
          /\ call.result.failed = DOMAIN call.sent[1]
    /\ (call.pc = "done" /\ someFieldWritten) => call.result.status # "error"

\* the store has rejected fields of the last batch of the document write and
\* their elimination has left the batch empty
batchEmptied ==
    /\ documentWrite
    /\ call.answers # <<>>
    /\ call.answers[Len(call.answers)].code = 400
    /\ DOMAIN call.properties = {}

\* C19: when the elimination of non-existent fields leaves the batch of the
\* document write empty, the function returns success, sends no batch after
\* the rejected one, and nothing is written in the store.
C19_EmptyBatchIsSuccess ==
    batchEmptied =>
        /\ call.pc = "done"
        /\ call.result.status = "success"
        /\ Len(call.sent) = Len(call.answers)
        /\ \A i \in 1..Len(call.sent) : call.sent[i] # NoProperties
        /\ ~someFieldWritten

\* the batch was emptied in two eliminations
C19_EmptiedAtRetry ==
    /\ batchEmptied
    /\ Len(call.answers) = 2
    /\ call.result.status = "success"

\* the store has answered record-not-found to an attempt of the call
notFoundAnswered == \E i \in 1..Len(call.answers) : call.answers[i].code = 404

\* C20: a write function of a full save or of a partial sync whose attempt,
\* the first or a retry, was answered record-not-found returns success, never
\* error (the answer itself writes nothing: written changes the record on a
\* 200 only).
C20_NotFoundIsSuccess ==
    (call.pc = "done" /\ notFoundAnswered) => call.result.status = "success"

\* the full saves between their start and their completion
savesInFlight == Len(autoSaves) + (IF save.phase # "none" THEN 1 ELSE 0)

\* C21: at most one full save, user-initiated or automatic, is in flight.
C21_AtMostOneSaveInFlight == savesInFlight <= 1

\* C22: every full save that has succeeded is eventually followed by the
\* save's fetch of the record, the one whose answer rebuilds the document
\* set, the baseline and the aggregate state.
C22_SaveLeadsToRefetch == (save.phase = "wait") ~> (save.phase = "refetch")

\* the step at which the fetch of the save is answered with the record
saveRefetched(phase, phaseAfter, op) ==
    phase = "refetch" /\ phaseAfter = "none" /\ op = "fetchOk"

\* C23: when the fetch of a successful full save is answered, every partial
\* sync has been answered, nothing failed or changed the record out of band
\* and the user made no change since the save started, the store's
\* missing_doc is the summary of the document set the save wrote.
C23_SaveOverridesOlderSync ==
    [][(/\ saveRefetched(save.phase, save'.phase, lastOp'.op)
        /\ syncs = {}
        /\ events = 0
        /\ documents = save.docs)
       => store.missing_doc = save.missing]_vars

\* the record holds the two flags of every document of the set
holdsFlagsOf(record, docs) ==
    \A i \in 1..Len(docs) :
        /\ record.flags[configOf(docs[i]).requiredProperty] = flagText(docs[i].required)
        /\ record.flags[configOf(docs[i]).providedProperty] = flagText(docs[i].provided)

\* C24: whatever fetch on window focus starts or is answered while a save is
\* pending, the write of the save puts in the store the flags the user
\* confirmed when pressing save, and when the fetch of the save is answered
\* with the record the local documents are those resolved from the record as
\* it is after the save, with no unsaved change.
C24_SaveSurvivesRefocus ==
    [][/\ (save.phase = "documents" /\ save'.phase = "status" /\ store.exists)
              => holdsFlagsOf(store', save.docs)
       /\ saveRefetched(save.phase, save'.phase, lastOp'.op)
              => /\ documents' = fetchedDocuments(store', fetchedProperties(store'))
                 /\ ~isChanged']_vars

\* the fetch of a save has been answered with the record while a fetch
\* started by a window focus during that save is still in flight
C24_RefetchedUnderFocusFetch ==
    /\ lastOp.op = "fetchOk"
    /\ fetches > 0
    /\ save.phase = "none"
    /\ ~isChanged
    /\ documents = fetchedDocuments(store, fetchedProperties(store))

\* a full save of the local state would change no field of the record: the
\* record holds the flags of every document and the three aggregate fields
\* the save would write
savedAlready(record, docs, completion, state, properties) ==
    /\ holdsFlagsOf(record, docs)
    /\ holdsAggregatesOf(record, [completion |-> completion, state |-> state,
                                  missing |-> calculateMissingDocuments(docs, properties)])

\* C25: a full save is idempotent: when a save has succeeded and its fetch has
\* been answered with the record, in a run with no failure and no out-of-band
\* change, with no partial sync in flight and the summary of the save still in
\* the record, a second save of the local state as the fetch left it would
\* change no field of the record.
C25_SaveIsIdempotent ==
    [][(/\ saveRefetched(save.phase, save'.phase, lastOp'.op)
        /\ events = 0
        /\ syncs = {}
        /\ store.missing_doc = save.missing)
       => savedAlready(store', documents', isCompleted', dossierState',
                       recordProperties')]_vars

\* the call is a partial sync: updateCompletionStatus given missingDoc alone
isPartialSync ==
    call.fn \in StatusFunctions /\ DOMAIN call.parameters = {PROPS.MISSING}

\* C26: a partial sync writes the missing-documents summary alone: on the
\* first attempt, on the retry and on the per-field fallback, in both versions
\* of updateCompletionStatus, every batch it sends names at most missing_doc,
\* and the completion flag, the dossier state and every other field of the
\* record keep the value they had.
C26_PartialSyncWritesSummaryOnly ==
    isPartialSync =>
        /\ \A i \in 1..Len(call.sent) : DOMAIN call.sent[i] \subseteq {PROPS.MISSING}
        /\ \A f \in DOMAIN crm.values \ {PROPS.MISSING} : crm.values[f] = ""

\* a partial sync has written the summary in its per-field fallback, on a
\* record that has the completion flag and the dossier state
C26_SummaryWrittenInFallback ==
    /\ isPartialSync
    /\ call.pc = "done"
    /\ PROPS.MISSING \in call.updated
    /\ crm.values = [f \in StatusFields |-> IF f = PROPS.MISSING THEN "<ul>" ELSE ""]

\* C27: the partial syncs of a burst of mutations are coalesced: once a fetch
\* has set the baseline and the properties, a toggle itself issues no call of
\* updateMissingDocProperty; the one call of the burst is issued by the
\* timeout that the last toggle leaves pending, with the summary of the final
\* document set.
C27_OneSyncPerBurst ==
    [][(/\ clicks' # clicks /\ lastOp'.op = "toggle"
        /\ initialDocuments # <<>> /\ recordProperties # <<>>)
       => /\ syncs' = syncs
          /\ timer'.set
          /\ timer'.missing = calculateMissingDocuments(documents', recordProperties')]_vars

\* a remote call is answered in the step
fetchAnswered(fetchesAfter, phase, phaseAfter) ==
    fetchesAfter < fetches \/ (phase = "refetch" /\ phaseAfter # phase)
writeAnswered(phase, phaseAfter, syncsAfter) ==
    (phase \in {"documents", "status"} /\ phaseAfter # phase) \/ syncs \ syncsAfter # {}

\* the write answered in the step succeeded: the save went on to its next
\* phase, or a partial sync was answered with the token in place and no
\* failure spent
writeSucceeded(phase, phaseAfter, syncsAfter, eventsAfter) ==
    \/ phase = "documents" /\ phaseAfter = "status"
    \/ phase = "status" /\ phaseAfter = "wait"
    \/ syncs \ syncsAfter # {} /\ store.token /\ eventsAfter = events

\* C28: the configuration-error flag is sticky: a remote call answered with a
\* configuration failure (the token is missing) sets it; while it is set no
\* partial sync is issued; a successful write clears it, and nothing else
\* does.
C28_StickyConfigurationFlag ==
    [][/\ (/\ ~store.token
           /\ \/ fetchAnswered(fetches', save.phase, save'.phase)
              \/ writeAnswered(save.phase, save'.phase, syncs'))
          => hasConfigError'
       /\ hasConfigError => syncs' \subseteq syncs
       /\ writeSucceeded(save.phase, save'.phase, syncs', events') => ~hasConfigError'
       /\ (hasConfigError /\ ~hasConfigError')
          => writeSucceeded(save.phase, save'.phase, syncs', events')]_vars

\* the step at which a write of the save is answered with a failure and the
\* save ends
saveFailed(phase, phaseAfter, op) ==
    phase \in {"documents", "status"} /\ phaseAfter = "none" /\ op = "saveFailed"

\* C29: when a write of a full save fails, an error message is set, the save
\* is no longer in progress, and the step leaves the local state unsaved: the
\* flags of every document, the baseline (documents, completion flag, dossier
\* state) and has-unsaved-changes are as they were; if nothing else changed
\* the documents since save was pressed they are the ones the save was
\* started with, so that the same save can be started again.
C29_FailedSaveLeavesStateUnsaved ==
    [][saveFailed(save.phase, save'.phase, lastOp'.op)
       => /\ error' # ""
          /\ ~saving'
          /\ documents' = documents
          /\ documents = save.docs => documents' = save.docs
          /\ initialDocuments' = initialDocuments
          /\ initialCompletionStatus' = initialCompletionStatus
          /\ initialDossierState' = initialDossierState
          /\ isChanged' = isChanged
          /\ isCompleted' = isCompleted
          /\ dossierState' = dossierState]_vars

\* the write of the aggregate fields has failed: the message is shown and the
\* unsaved changes are still there to be saved again
C29_StatusWriteFailed ==
    /\ lastOp.op = "saveFailed"
    /\ error = "error"
    /\ ~saving
    /\ isChanged
    /\ documents # initialDocuments
    /\ holdsFlagsOf(store, documents)
    /\ buttonsRendered

\* the local documents, completion flag and dossier state are the baseline
atBaseline(docs, completion, state) ==
    /\ docs = initialDocuments
    /\ completion = initialCompletionStatus
    /\ state = initialDossierState

\* C30: a reset puts the documents, the completion flag and the dossier state
\* back to the baseline and clears has-unsaved-changes; and toggles followed
\* by a reset give the state there was before the toggles: a toggle made when
\* there is no unsaved change starts from the baseline the reset restores.
C30_ResetRestoresBaseline ==
    [][/\ (clicks' # clicks /\ lastOp'.op = "reset")
          => (atBaseline(documents', isCompleted', dossierState') /\ ~isChanged')
       /\ (clicks' # clicks /\ lastOp'.op = "toggle" /\ ~isChanged)
          => atBaseline(documents, isCompleted, dossierState)]_vars

\* some document of the catalog has, in its configuration for the view, the
\* condition (sous_categorie, equals, v)
viewHasCategory(tab, v) ==
    \E i \in 1..Len(catalog) : \E e \in 1..Len(catalog[i].tabConfig) :
        /\ catalog[i].tabConfig[e].tabId = tab
        /\ \E c \in 1..Len(catalog[i].tabConfig[e].conditions) :
              catalog[i].tabConfig[e].conditions[c] = Cond("sous_categorie", "equals", v)

AllTabs == {TABS_CONFIG[i] : i \in 1..Len(TABS_CONFIG)}

\* C31: the active view for the category held is a view that some catalog
\* document configures with the condition (sous_categorie, equals, category);
\* when no document has such a condition, or no category is held, the active
\* view is undefined and every view is displayed; when it is defined, the
\* active view and the overflow view are displayed and no other.
C31_ActiveViewRouting ==
    IF natureDemande # <<>> /\ \E tab \in AllTabs : viewHasCategory(tab, natureDemande)
    THEN /\ getActiveTabId # NoTab
         /\ viewHasCategory(getActiveTabId, natureDemande)
         /\ tabsToShow = {"autre", getActiveTabId}
    ELSE /\ getActiveTabId = NoTab
         /\ tabsToShow = AllTabs

\* the category routes to the view of a document's second entry
C31_RoutedToSecondView ==
    /\ natureDemande = Y
    /\ getActiveTabId = "naturalisation_mariage"
    /\ tabsToShow = {"autre", "naturalisation_mariage"}
    /\ ~loading

\* some document of the catalog configures the view with the condition
\* (sous_categorie, equals, v) and no other
viewHasCategoryAlone(tab, v) ==
    \E i \in 1..Len(catalog) : \E e \in 1..Len(catalog[i].tabConfig) :
        /\ catalog[i].tabConfig[e].tabId = tab
        /\ catalog[i].tabConfig[e].conditions = <<Cond("sous_categorie", "equals", v)>>

\* C32: when a document of the catalog carries the category condition alone
\* for some view, the router returns the view of such a document, wherever in
\* the catalog the documents that carry the condition with further predicates
\* stand.
C32_PrefersSingleCondition ==
    (/\ routeOut.done
     /\ routeValue # <<>>
     /\ \E tab \in AllTabs : viewHasCategoryAlone(tab, routeValue))
    => viewHasCategoryAlone(routeOut.tab, routeValue)

\* the documents of the list given to the calculator that count as required:
\* flagged required, or with conditions that the category meets
countedRequired ==
    {i \in 1..Len(progressDocs) :
        \/ progressDocs[i].required
        \/ /\ getAllConditions(catalog[i]) # <<>>
           /\ checkDocumentConditions(catalog[i], categoryBag(routeValue), NoTab)}

\* C34: the progress calculator returns the number of required documents and
\* the number of those that are provided, which is never the larger; the
\* percentage is 100 * provided / required rounded to the nearest integer
\* (halves upward) when a document is required, and 100 when none is, in which
\* case the progress bar is not rendered.
C34_ProgressContract ==
    progressOut.done =>
        LET r == progressOut.progress.required
            n == progressOut.progress.provided
            q == progressOut.progress.percentage
        IN /\ r = Cardinality(countedRequired)
           /\ n = Cardinality({i \in countedRequired : progressDocs[i].provided})
           /\ n <= r
           /\ r > 0 => /\ 2 * q * r <= 200 * n + r
                       /\ 200 * n + r < 2 * (q + 1) * r
                       /\ progressOut.bar
           /\ r = 0 => (q = 100 /\ ~progressOut.bar)

\* two of three required documents are provided: 67 percent, bar rendered
C34_TwoOfThree ==
    /\ progressOut.done
    /\ progressOut.progress = [provided |-> 2, required |-> 3, percentage |-> 67]
    /\ progressOut.bar

\* the store calls a full save in its given phase may still lead to: its own
\* two writes, the fetch one second later and what that fetch starts
workOfSave(phase) ==
    CASE phase = "documents" -> 10
      [] phase = "status" -> 9
      [] phase = "wait" -> 8
      [] phase = "refetch" -> 7
      [] OTHER -> 0

RECURSIVE workOfAutoSaves(_)
workOfAutoSaves(saves) ==
    IF saves = <<>> THEN 0
    ELSE (IF Head(saves).phase = "documents" THEN 2 ELSE 1) + workOfAutoSaves(Tail(saves))

\* the work pending: every call in flight and every timeout set, each counted
\* with the calls and timeouts its completion may start
pendingWork(inFetch, inSync, theSave, theTimer, theSwitches, theAutoSaves) ==
    6 * inFetch + Cardinality(inSync) + workOfSave(theSave.phase)
        + (IF theTimer.set THEN 2 ELSE 0) + Cardinality(theSwitches)
        + workOfAutoSaves(theAutoSaves)

\* the most work one user gesture adds: a confirmation of the save
MaxWork == workOfSave("documents")

C33_BoundedCalls == Len(call.sent) <= 4

\* C35: a fetch for which a store read failed, the whole call or one batch of
\* fields, is surfaced as an error and leaves the documents, the baseline and
\* has-unsaved-changes as they were: no flag is replaced by a default false.
C35_ReadFailureIsSurfaced ==
    [][fetches' = fetches - 1 /\ lastOp'.op \in {"fetchFailed", "fetchPartial"}
          => /\ error' # ""
             /\ documents' = documents
             /\ initialDocuments' = initialDocuments
             /\ isChanged' = isChanged]_vars

\* the flags, the completion flag and the dossier state of a record
savedFields(st) == <<st.flags, st.documents_completed, st.etat_du_dossier>>

\* C36: a full save is started only by the user's confirmation, and the
\* store's document flags, completion flag and dossier state change only in
\* a write of such a save: a step that starts a full save is the click on
\* the save button, and a step that changes those fields is an answer to the
\* save the user confirmed.
C36_SaveOnlyOnConfirmation ==
    [][/\ (save.phase = "none" /\ save'.phase # "none") \/ Len(autoSaves') > Len(autoSaves)
          => clicks' = clicks + 1 /\ lastOp'.op = "saveStart"
       /\ savedFields(store') # savedFields(store)
          => save.phase \in {"documents", "status"}]_vars

\* C37: in every reachable state the completion flag is true exactly when the
\* dossier state is COMPLETE, and so is the pair that a full save in flight
\* writes.
C37_CompletionMatchesState ==
    /\ isCompleted <=> dossierState = DOSSIER_STATES.COMPLETE
    /\ save.phase # "none" => (save.completion <=> save.state = DOSSIER_STATES.COMPLETE)

\* a full save is writing the pair (true, COMPLETE)
C37_SavingComplete ==
    /\ save.phase = "status"
    /\ save.completion
    /\ save.state = DOSSIER_STATES.COMPLETE
    /\ isCompleted

\* the document is in the list that the given view shows
shownIn(doc, tab) ==
    containsId(visibleDocuments(documents, recordProperties, natureDemande, tab), doc.id)

\* C38: no flagged document disappears: in every reachable state with an
\* active view defined (and no search text), each document that is required
\* or provided and has at least one view entry is visible in the active view
\* or in the overflow view.
C38_FlaggedStaysVisible ==
    getActiveTabId # NoTab =>
        \A i \in 1..Len(documents) :
            /\ documents[i].required \/ documents[i].provided
            /\ configOf(documents[i]).tabConfig # <<>>
            => shownIn(documents[i], getActiveTabId) \/ shownIn(documents[i], "autre")

\* a provided document of another view is shown in the overflow view alone,
\* while a required document is shown in the active view alone
C38_OneInEach ==
    /\ getActiveTabId # NoTab
    /\ \E i \in 1..Len(documents) :
          /\ documents[i].provided
          /\ configOf(documents[i]).tabConfig # <<>>
          /\ ~shownIn(documents[i], getActiveTabId)
          /\ shownIn(documents[i], "autre")
    /\ \E i \in 1..Len(documents) :
          /\ documents[i].required
          /\ shownIn(documents[i], getActiveTabId)
          /\ ~shownIn(documents[i], "autre")

changedNow ==
    changesAgainst(documents, isCompleted, dossierState,
                   initialDocuments, initialCompletionStatus, initialDossierState)

\* C40: in every state in which no fetch or save is in flight,
\* has-unsaved-changes is true iff some document's required or provided flag
\* differs from the baseline document at the same position (or has no
\* baseline document), or the completion flag or dossier state differs from
\* its baseline value, also after toggles made while a save was in flight.
C40_ChangedIffDiffers ==
    fetches = 0 /\ save = NoSave => (isChanged <=> changedNow)

\* the same with a baseline recorded by a fetch or a save
C40_ChangedWithBaseline ==
    fetches = 0 /\ save = NoSave /\ initialDocuments # <<>> => (isChanged <=> changedNow)

====
